---------------------------- MODULE Spec2Model ----------------------------
(***************************************************************************)
(* Model of the gene-annotation resolver of src/ensembl.py:                *)
(*   - the retrying HTTP client (retry_get, retry_post),                   *)
(*   - the provider adapters (Ensembl, UniProt, NCBI),                     *)
(*   - the merge of ontology terms (merge_go_maps) and the choice of the   *)
(*     preferred symbol (_choose_preferred_symbol),                        *)
(*   - the batch loop (annotate_ensembl_ids) and the /annotate route.      *)
(*                                                                         *)
(* Python strings are sequences of character codes, so that upper(),       *)
(* strip(), sorted() and "; ".join() are computed, not assumed.            *)
(*                                                                         *)
(* Three specifications:                                                   *)
(*   SpecFetch  one call of retry_get / retry_post over every sequence of  *)
(*              transport outcomes;                                        *)
(*   Spec       one invocation of the resolver (the /annotate route or the *)
(*              CLI) on a batch of identifiers, the providers answering    *)
(*              from the pools of World;                                   *)
(*   SpecMerge  the same actions on batches with one surviving identifier, *)
(*              the providers answering from the larger pools of RichWorld.*)
(* In Spec and SpecMerge a call of retry_get / retry_post is represented   *)
(* by its result: a response, or the RuntimeError of exhausted retries.    *)
(***************************************************************************)
EXTENDS Integers, Sequences, FiniteSets, TLC

VARIABLES
    \* ---- one call of retry_get / retry_post (src/ensembl.py:40-82) ----
    method,      \* "GET" (retry_get) or "POST" (retry_post)
    attempt,     \* the loop variable of `for attempt in range(max_tries)`
    backoff,     \* the local `backoff`
    slept,       \* the durations passed to time.sleep, in order
    sent,        \* number of requests.get / requests.post calls issued
    outcomes,    \* what each issued request ended in, in order
    fpc,         \* "idle" | "loop" | "inflight" | "returned" | "raised"
    resp         \* status code of the response returned to the caller (0: none)

VARIABLES
    \* ---- configuration (src/ensembl.py:33-34) ----
    ENABLE_UNIPROT_FALLBACK,
    ENABLE_NCBI_FALLBACK,
    \* ---- the invocation: annotate() (631-685) or the CLI (704-711) ----
    request,     \* what the caller sent
    response,    \* what the caller gets: [status, body]
    apc,         \* control point of the invocation
    \* ---- annotate_ensembl_ids (408-568) ----
    id_list,     \* the argument
    ids,         \* the sanitised, truncated list
    idx,         \* position in ids of the identifier being resolved (enid)
    en_symbol, en_gos,
    up_id, up_symbol, up_gos,
    ncbi_id, ncbi_symbol, ncbi_gos,
    annotations, gene_symbols_seen, all_go_ids_global,
    uniprot_fetch_count, ncbi_fetch_count,
    \* ---- get_uniprot_id_from_ensembl (167-229), _uniprot_poll_job (120-145) ----
    job_id,      \* the id-mapping job
    polls,       \* iterations of the poll loop so far
    query,       \* index of the search query being tried (1..4)
    \* ---- what went over the wire (history of the calls of retry_get / retry_post) ----
    fetched,     \* for the identifier `for` (the one being resolved, or resolved
                 \* last), per provider: "no" fetch was sent, every fetch sent
                 \* "exhausted" its retries, or one was "answered"
    last_call    \* the adapter called last: the kind of response it got, whether
                 \* an exception left it, the search query it sent

fvars == <<method, attempt, backoff, slept, sent, outcomes, fpc, resp>>

avars == <<ENABLE_UNIPROT_FALLBACK, ENABLE_NCBI_FALLBACK, request, response, apc,
           id_list, ids, idx, en_symbol, en_gos, up_id, up_symbol, up_gos,
           ncbi_id, ncbi_symbol, ncbi_gos, annotations, gene_symbols_seen,
           all_go_ids_global, uniprot_fetch_count, ncbi_fetch_count,
           job_id, polls, query, fetched, last_call>>

vars == <<fvars, avars>>

-----------------------------------------------------------------------------
(* ------------------------------ Python values --------------------------- *)

\* A JSON / Python scalar: a string (its character codes), None, or a number.
\* "absent" marks a key that a JSON object does not have. A number stands for
\* every non-string value: Num(0) is falsy, any other is truthy.
Absent == [t |-> "absent", v |-> <<>>]

None == [t |-> "none", v |-> <<>>]

Str(s) == [t |-> "str", v |-> s]

Num(n) == [t |-> "int", v |-> <<n>>]

\* dict.get(key): None when the key is absent.
Get(x) == IF x.t = "absent" THEN None ELSE x

\* bool(x)
Truthy(x) == (x.t = "str" /\ x.v # <<>>) \/ (x.t = "int" /\ x.v # <<0>>)

\* a or b
Or(a, b) == IF Truthy(a) THEN a ELSE b

\* isinstance(x, str)
IsStr(x) == x.t = "str"

\* str(x), for numbers of one digit
PyStr(x) ==
    CASE x.t = "str" -> x.v
      [] x.t = "int" -> <<48 + x.v[1]>>
      [] OTHER -> <<78, 111, 110, 101>>   \* "None"

SetMin(S) == CHOOSE x \in S : \A y \in S : x <= y

SetMax(S) == CHOOSE x \in S : \A y \in S : y <= x

\* str.isspace() of one character (the ASCII whitespace)
IsSpace(c) == c \in {9, 10, 11, 12, 13, 28, 29, 30, 31, 32}

\* s.strip()
Strip(s) ==
    LET keep == {i \in DOMAIN s : ~IsSpace(s[i])}
    IN  IF keep = {} THEN <<>> ELSE SubSeq(s, SetMin(keep), SetMax(keep))

\* s.upper() and s.lower(), on ASCII letters
Upper(s) == [i \in DOMAIN s |-> IF s[i] \in 97..122 THEN s[i] - 32 ELSE s[i]]

Lower(s) == [i \in DOMAIN s |-> IF s[i] \in 65..90 THEN s[i] + 32 ELSE s[i]]

\* s.startswith(p)
StartsWith(s, p) == Len(s) >= Len(p) /\ SubSeq(s, 1, Len(p)) = p

\* sub in s
Contains(s, sub) ==
    \E i \in 0..(Len(s) - Len(sub)) : SubSeq(s, i + 1, i + Len(sub)) = sub

\* a < b on str: by code point, a proper prefix first
StrLess(a, b) ==
    \E i \in 1..(Len(b)) :
        /\ i <= Len(a) + 1
        /\ \A j \in 1..(i - 1) : a[j] = b[j]
        /\ (i > Len(a) \/ a[i] < b[i])

RECURSIVE sorted(_)
\* sorted(S) of a set of str
sorted(S) ==
    IF S = {} THEN <<>>
    ELSE LET m == CHOOSE x \in S : \A y \in S \ {x} : StrLess(x, y)
         IN  <<m>> \o sorted(S \ {m})

RECURSIVE join(_, _)
\* sep.join(seq)
join(sep, seq) ==
    IF seq = <<>> THEN <<>>
    ELSE IF Len(seq) = 1 THEN seq[1]
    ELSE seq[1] \o sep \o join(sep, Tail(seq))

\* The elements of a sequence
Range(seq) == {seq[i] : i \in DOMAIN seq}

-----------------------------------------------------------------------------
NoResponse == [status |-> "none", body |-> <<>>]

\* The state before an invocation; SpecFetch stays in it.
AnnIdle ==
    /\ ENABLE_UNIPROT_FALLBACK = TRUE
    /\ ENABLE_NCBI_FALLBACK = TRUE
    /\ request = <<>>
    /\ response = NoResponse
    /\ apc = "idle"
    /\ id_list = <<>>
    /\ ids = <<>>
    /\ idx = 0
    /\ en_symbol = None
    /\ en_gos = <<>>
    /\ up_id = None
    /\ up_symbol = None
    /\ up_gos = <<>>
    /\ ncbi_id = None
    /\ ncbi_symbol = None
    /\ ncbi_gos = <<>>
    /\ annotations = <<>>
    /\ gene_symbols_seen = {}
    /\ all_go_ids_global = {}
    /\ uniprot_fetch_count = 0
    /\ ncbi_fetch_count = 0
    /\ job_id = None
    /\ polls = 0
    /\ query = 0
    /\ fetched = [for |-> <<>>, ensembl |-> "no", uniprot |-> "no", ncbi |-> "no"]
    /\ last_call = [adapter |-> "", kind |-> "", exc |-> FALSE, query |-> <<>>]

(* ------------------------- retry_get / retry_post ----------------------- *)

MAX_RETRIES == 5

InitialBackoff == 1

\* What one requests.get / requests.post call can end in: a
\* requests.RequestException (connection error, timeout) or a response with
\* a status code.
StatusCodes == {200, 201, 204, 404, 429, 500, 503}

TransportOutcomes ==
    {[exc |-> TRUE, code |-> 0]} \cup {[exc |-> FALSE, code |-> c] : c \in StatusCodes}

SuccessStatus(m) == IF m = "GET" THEN {200} ELSE {200, 201}

RetryStatus_with404 == {404, 429, 503}

RetryStatus == {429, 503}

NextBackoff_add2(b) == b + 2

NextBackoff(b) == b * 2

max_tries_plus1 == MAX_RETRIES + 1

max_tries == MAX_RETRIES

FetchInit ==
    /\ method \in {"GET", "POST"}
    /\ attempt = 0
    /\ backoff = InitialBackoff
    /\ slept = <<>>
    /\ sent = 0
    /\ outcomes = <<>>
    /\ fpc = "loop"
    /\ resp = 0
    /\ AnnIdle

\* requests.get(...) / requests.post(...) inside the loop body.
FetchSend ==
    /\ fpc = "loop"
    /\ attempt < max_tries
    /\ sent' = sent + 1
    /\ fpc' = "inflight"
    /\ UNCHANGED <<method, attempt, backoff, slept, outcomes, resp>>
    /\ UNCHANGED avars

\* `if r.status_code == 200: return r` (retry_post: `in (200, 201)`).
FetchSuccess ==
    /\ fpc = "inflight"
    /\ \E o \in TransportOutcomes :
        /\ ~o.exc
        /\ o.code \in SuccessStatus(method)
        /\ outcomes' = Append(outcomes, o)
        /\ resp' = o.code
    /\ fpc' = "returned"
    /\ UNCHANGED <<method, attempt, backoff, slept, sent>>
    /\ UNCHANGED avars

\* `if r.status_code in (429, 503): time.sleep(backoff); backoff *= 2; continue`
FetchRetryStatus ==
    /\ fpc = "inflight"
    /\ \E o \in TransportOutcomes :
        /\ ~o.exc
        /\ o.code \notin SuccessStatus(method)
        /\ o.code \in RetryStatus
        /\ outcomes' = Append(outcomes, o)
    /\ slept' = Append(slept, backoff)
    /\ backoff' = NextBackoff(backoff)
    /\ attempt' = attempt + 1
    /\ fpc' = "loop"
    /\ UNCHANGED <<method, sent, resp>>
    /\ UNCHANGED avars

\* `return r` for any other status.
FetchOtherStatus ==
    /\ fpc = "inflight"
    /\ \E o \in TransportOutcomes :
        /\ ~o.exc
        /\ o.code \notin SuccessStatus(method)
        /\ o.code \notin RetryStatus
        /\ outcomes' = Append(outcomes, o)
        /\ resp' = o.code
    /\ fpc' = "returned"
    /\ UNCHANGED <<method, attempt, backoff, slept, sent>>
    /\ UNCHANGED avars

FetchException_reraise ==
    /\ fpc = "inflight"
    /\ \E o \in TransportOutcomes :
        /\ o.exc
        /\ outcomes' = Append(outcomes, o)
    /\ fpc' = "raised"
    /\ UNCHANGED <<method, attempt, backoff, slept, sent, resp>>
    /\ UNCHANGED avars

\* `except requests.RequestException: time.sleep(backoff); backoff *= 2`
FetchException ==
    /\ fpc = "inflight"
    /\ \E o \in TransportOutcomes :
        /\ o.exc
        /\ outcomes' = Append(outcomes, o)
    /\ slept' = Append(slept, backoff)
    /\ backoff' = NextBackoff(backoff)
    /\ attempt' = attempt + 1
    /\ fpc' = "loop"
    /\ UNCHANGED <<method, sent, resp>>
    /\ UNCHANGED avars

\* The loop is exhausted: `raise RuntimeError(...)`.
FetchRaise ==
    /\ fpc = "loop"
    /\ attempt >= max_tries
    /\ fpc' = "raised"
    /\ UNCHANGED <<method, attempt, backoff, slept, sent, outcomes, resp>>
    /\ UNCHANGED avars

FetchNext ==
    \/ FetchSend
    \/ FetchSuccess
    \/ FetchRetryStatus
    \/ FetchOtherStatus
    \/ FetchException
    \/ FetchRaise

SpecFetch == FetchInit /\ [][FetchNext]_vars

-----------------------------------------------------------------------------
(* --------------------------- provider responses ------------------------- *)

\* What a call of retry_get / retry_post hands to an adapter, by kind:
\*   "raise"   the RuntimeError of exhausted retries;
\*   "status"  a response whose status is not 200 (not 200/201 for a POST);
\*   "nojson"  a 200 response whose r.json() raises;
\*   "shape"   a 200 response holding JSON of another shape than the adapter
\*             reads (a list for an object, a scalar for an item), so that
\*             the first attribute access on it raises;
\*   "ok"      a 200 response holding the JSON object `body`.
\* A JSON object is a record of the keys the adapter reads, Absent marking a
\* key the object does not have.
\* The result of an adapter call: the value returned, or an exception that
\* leaves the adapter.
Returns(v) == [exc |-> FALSE, val |-> v]

Raises(v) == [exc |-> TRUE, val |-> v]

\* A (go_id, description) tuple
Term(gid, desc) == [gid |-> gid, desc |-> desc]

s_GO == <<71, 79>>   \* "GO"

s_GOcolon == <<71, 79, 58>>   \* "GO:"

s_GENE_ONTOLOGY == <<71, 69, 78, 69, 95, 79, 78, 84, 79, 76, 79, 71, 89>>   \* "GENE_ONTOLOGY"

(* ------------------------------ Ensembl adapters ------------------------ *)

\* get_gene_symbol: body = [display_name, external_name]
get_gene_symbol(r) ==
    CASE r.kind = "raise" -> Raises(None)
      [] r.kind = "status" -> Returns(None)
      [] r.kind = "nojson" -> Returns(None)
      [] r.kind = "shape" -> Raises(None)
      [] OTHER -> Returns(Or(Or(Get(r.body.display_name), Get(r.body.external_name)), None))

\* One item of the xrefs list: [dbname, db_display_name, primary_id, id,
\* display_id, description].
\* (it.get("dbname") or "").upper() raises on a truthy non-string.
xref_raises(it) ==
    \/ ~IsStr(Or(Get(it.dbname), Str(<<>>)))
    \/ ~IsStr(Or(Get(it.db_display_name), Str(<<>>)))

xref_is_go(it) ==
    LET dbname == Upper(Or(Get(it.dbname), Str(<<>>)).v)
        db_display == Upper(Or(Get(it.db_display_name), Str(<<>>)).v)
    IN  Contains(dbname, s_GO) \/ Contains(db_display, s_GO) \/ dbname = s_GENE_ONTOLOGY

xref_go_id(it) == Or(Or(Get(it.primary_id), Get(it.id)), Get(it.display_id))

RECURSIVE xref_terms(_)
\* the loop `for it in items` of get_go_xrefs, without its exceptions
xref_terms(items) ==
    IF items = <<>> THEN <<>>
    ELSE LET it == Head(items)
             go_id == xref_go_id(it)
             desc == Or(Or(Get(it.description), Get(it.display_id)), Str(<<>>))
         IN  (IF xref_is_go(it) /\ Truthy(go_id)
                THEN <<Term(Strip(PyStr(go_id)), desc)>>
                ELSE <<>>)
             \o xref_terms(Tail(items))

\* get_go_xrefs: body = the list of items
get_go_xrefs(r) ==
    CASE r.kind = "raise" -> Raises(<<>>)
      [] r.kind = "status" -> Returns(<<>>)
      [] r.kind = "nojson" -> Returns(<<>>)
      [] r.kind = "shape" -> Raises(<<>>)
      [] OTHER ->
            IF \E i \in DOMAIN r.body : xref_raises(r.body[i])
              THEN Raises(<<>>)
              ELSE Returns(xref_terms(r.body))

(* ------------------------------ UniProt adapters ------------------------ *)

s_error == <<101, 114, 114, 111, 114>>   \* "error"

s_GoTerm == <<71, 111, 84, 101, 114, 109>>   \* "GoTerm"

s_term == <<116, 101, 114, 109>>   \* "term"

\* The POST to idmapping/run inside get_uniprot_id_from_ensembl:
\* body = [jobId, job_id, id]. The job id read from it, None when the
\* response gives none or the enclosing try catches an exception.
idmapping_job_id(r) ==
    IF r.kind = "ok"
      THEN Or(Or(Or(Get(r.body.jobId), Get(r.body.job_id)), Get(r.body.id)), Get(r.body.jobId))
      ELSE None

\* ("finished", "complete", "success") of line 138
FinishedStatus ==
    {<<102, 105, 110, 105, 115, 104, 101, 100>>, <<99, 111, 109, 112, 108, 101, 116, 101>>,
     <<115, 117, 99, 99, 101, 115, 115>>}

\* ("failed", "error") of line 140
FailedStatus == {<<102, 97, 105, 108, 101, 100>>, s_error}

\* One iteration of the loop of _uniprot_poll_job:
\* body = [jobStatus, status, job_status].
\* "finished": return True; "failed": return False; "again": sleep and loop.
poll_verdict(r) ==
    IF r.kind # "ok" THEN "again"
    ELSE LET raw == Or(Or(Get(r.body.jobStatus), Get(r.body.status)), Get(r.body.job_status))
             status_val == IF IsStr(raw) THEN Str(Lower(raw.v)) ELSE raw
         IN  IF IsStr(status_val) /\ status_val.v \in FinishedStatus THEN "finished"
             ELSE IF IsStr(status_val) /\ status_val.v \in FailedStatus THEN "failed"
             ELSE "again"

\* A JSON value that may be a list: [islist, items].
NoList == [islist |-> FALSE, items |-> <<>>]

List(items) == [islist |-> TRUE, items |-> items]

\* _uniprot_get_mapping_results:
\* body = [results, mappedResults, data, records, toplevel], each a value
\* that may be a list; toplevel is the payload itself.
_uniprot_get_mapping_results(r) ==
    IF r.kind # "ok" THEN <<>>
    ELSE IF r.body.results.islist THEN r.body.results.items
    ELSE IF r.body.mappedResults.islist THEN r.body.mappedResults.items
    ELSE IF r.body.data.islist THEN r.body.data.items
    ELSE IF r.body.records.islist THEN r.body.records.items
    ELSE IF r.body.toplevel.islist THEN r.body.toplevel.items
    ELSE <<>>

\* The candidate accession of the first mapping result,
\* item = [to, primaryAccession, id]; None when there is no result.
mapping_candidate(results) ==
    IF results = <<>> THEN None
    ELSE LET item == results[1]
         IN  Or(Or(Or(Get(item.to), Get(item.primaryAccession)), Get(item.id)), Get(item.to))

\* One search query of get_uniprot_id_from_ensembl:
\* body = [results, entries], lists of [primaryAccession, accession, id].
\* The accession found, None when the query gives none.
search_accession(r) ==
    IF r.kind # "ok" THEN None
    ELSE LET results == IF r.body.results # <<>> THEN r.body.results ELSE r.body.entries
         IN  IF results = <<>> THEN None
             ELSE Or(Or(Get(results[1].primaryAccession), Get(results[1].accession)),
                     Get(results[1].id))

\* get_gene_symbol_from_uniprot: body = [genes], a list of [geneName_value]
\* (gene.get("geneName", {}).get("value")).
get_gene_symbol_from_uniprot(enabled, uniprot_id, r) ==
    IF ~enabled \/ ~Truthy(uniprot_id) THEN Returns(None)
    ELSE IF r.kind # "ok" THEN Returns(None)
    ELSE IF r.body.genes = <<>> THEN Returns(None)
    ELSE LET gene_name == Get(r.body.genes[1].geneName_value)
         IN  IF Truthy(gene_name) THEN Returns(gene_name) ELSE Returns(None)

\* One cross reference of a UniProt entry:
\*   [database, type, id, pkind, plist, pGO]
\* pkind tells what xref["properties"] is: "absent" (or empty), "list" (of
\* [key, value], in plist) or "dict" (a non-empty object, pGO its "GO" key).
up_is_go(x) == Upper(PyStr(Or(Or(Get(x.database), Get(x.type)), Str(<<>>)))) = s_GO

\* go_id after lines 271-279
up_go_id(x) ==
    IF Truthy(Get(x.id)) THEN Get(x.id)
    ELSE IF x.pkind = "dict" /\ Truthy(Get(x.pGO)) THEN Get(x.pGO)
    ELSE Get(x.id)

up_accepts(x) ==
    /\ up_is_go(x)
    /\ Truthy(up_go_id(x))
    /\ StartsWith(Upper(PyStr(up_go_id(x))), s_GOcolon)

\* An attribute access that raises while this cross reference is read:
\* .get("GO") on a list (line 271), or prop.get on the keys of a dict
\* (lines 275-276 and 284-285).
up_xref_raises(x) ==
    /\ up_is_go(x)
    /\ \/ ~Truthy(Get(x.id)) /\ x.pkind = "list"
       \/ ~Truthy(Get(x.id)) /\ x.pkind = "dict" /\ ~Truthy(Get(x.pGO))
       \/ up_accepts(x) /\ x.pkind = "dict"

RECURSIVE up_description(_)
\* the loop `for prop in properties` of lines 284-287
up_description(plist) ==
    IF plist = <<>> THEN Str(<<>>)
    ELSE IF Get(Head(plist).key) \in {Str(s_GoTerm), Str(s_term)}
      THEN (IF Head(plist).value.t = "absent" THEN Str(<<>>) ELSE Head(plist).value)
      ELSE up_description(Tail(plist))

RECURSIVE up_terms(_)
up_terms(xrefs) ==
    IF xrefs = <<>> THEN <<>>
    ELSE LET x == Head(xrefs)
             description == IF x.pkind = "list" THEN up_description(x.plist) ELSE Str(<<>>)
         IN  (IF up_accepts(x)
                THEN <<Term(Strip(PyStr(up_go_id(x))), Or(description, Str(<<>>)))>>
                ELSE <<>>)
             \o up_terms(Tail(xrefs))

\* get_go_terms_from_uniprot:
\* body = [uniProtKBCrossReferences, dbReferences], lists of cross references
get_go_terms_from_uniprot(enabled, uniprot_id, r) ==
    IF ~enabled \/ ~Truthy(uniprot_id) THEN Returns(<<>>)
    ELSE IF r.kind # "ok" THEN Returns(<<>>)
    ELSE LET cross_refs == IF r.body.uniProtKBCrossReferences # <<>>
                             THEN r.body.uniProtKBCrossReferences
                             ELSE r.body.dbReferences
         IN  IF \E i \in DOMAIN cross_refs : up_xref_raises(cross_refs[i])
               THEN Returns(<<>>)
               ELSE Returns(up_terms(cross_refs))

(* -------------------------------- NCBI adapters ------------------------- *)

\* get_ncbi_gene_id_from_ensembl: body = [idlist], a list of values
get_ncbi_gene_id_from_ensembl(enabled, r) ==
    IF ~enabled THEN Returns(None)
    ELSE IF r.kind # "ok" THEN Returns(None)
    ELSE IF r.body.idlist = <<>> THEN Returns(None)
    ELSE Returns(r.body.idlist[1])

\* get_gene_symbol_from_ncbi: body = [nomenclature_symbol, name], the keys of
\* data["result"][ncbi_gene_id]
get_gene_symbol_from_ncbi(enabled, ncbi_gene_id, r) ==
    IF ~enabled \/ ~Truthy(ncbi_gene_id) THEN Returns(None)
    ELSE IF r.kind # "ok" THEN Returns(None)
    ELSE Returns(Or(Get(r.body.nomenclature_symbol), Get(r.body.name)))

RECURSIVE ncbi_terms(_)
\* the loop `for term in terms` of one go_* field: term = [value, label]
ncbi_terms(terms) ==
    IF terms = <<>> THEN <<>>
    ELSE LET term == Head(terms)
             description == IF term.label.t = "absent" THEN Str(<<>>) ELSE term.label
         IN  (IF term.value.t # "absent" /\ StartsWith(PyStr(term.value), s_GOcolon)
                THEN <<Term(term.value.v, description)>>
                ELSE <<>>)
             \o ncbi_terms(Tail(terms))

\* get_go_terms_from_ncbi: body = [go_component, go_function, go_process],
\* each a list of terms (empty when the field is missing)
get_go_terms_from_ncbi(enabled, ncbi_gene_id, r) ==
    IF ~enabled \/ ~Truthy(ncbi_gene_id) THEN Returns(<<>>)
    ELSE IF r.kind # "ok" THEN Returns(<<>>)
    ELSE Returns(ncbi_terms(r.body.go_component) \o ncbi_terms(r.body.go_function)
                    \o ncbi_terms(r.body.go_process))

-----------------------------------------------------------------------------
(* ------------------- merging and formatting (pure functions) ------------ *)

s_sep == <<59, 32>>   \* "; "

\* The list [(str(gid).upper(), desc or "") for gid, desc in gos] of a source
\* record (lines 506, 511, 516)
source_go(gos) == [k \in DOMAIN gos |-> Term(Upper(gos[k].gid), Or(gos[k].desc, Str(<<>>)))]

desc_counts_any(desc) == IsStr(desc)

\* The description merge_go_maps adds for a tuple, and whether it adds one
\* (line 403: `if desc and isinstance(desc, str) and desc.strip()`)
desc_counts(desc) == Truthy(desc) /\ IsStr(desc) /\ Strip(desc.v) # <<>>

desc_added_raw(desc) == desc.v

desc_added(desc) == Strip(desc.v)

\* One iteration of `for gid, desc in lst` (lines 396-404) on the pair
\* acc = (ids, desc_map)
merge_tuple(acc, t) ==
    IF t.gid = <<>> THEN acc
    ELSE LET gid_up == Upper(t.gid)
             before(g) == IF g \in DOMAIN acc.desc_map THEN acc.desc_map[g] ELSE {}
         IN  [ids |-> acc.ids \cup {gid_up},
              desc_map |-> [g \in DOMAIN acc.desc_map \cup {gid_up} |->
                              IF g = gid_up /\ desc_counts(t.desc)
                                THEN before(g) \cup {desc_added(t.desc)}
                                ELSE before(g)]]

RECURSIVE merge_list(_, _)
\* `for gid, desc in lst`
merge_list(acc, lst) ==
    IF lst = <<>> THEN acc ELSE merge_list(merge_tuple(acc, Head(lst)), Tail(lst))

RECURSIVE merge_lists(_, _)
\* `for lst in source_lists`
merge_lists(acc, source_lists) ==
    IF source_lists = <<>> THEN acc
    ELSE merge_lists(merge_list(acc, Head(source_lists)), Tail(source_lists))

\* merge_go_maps(*source_lists): (ids, desc_map)
merge_go_maps(source_lists) == merge_lists([ids |-> {}, desc_map |-> <<>>], source_lists)

merged_desc_str_described_only(desc_map) ==
    [g \in {h \in DOMAIN desc_map : desc_map[h] # {}} |-> join(s_sep, sorted(desc_map[g]))]

\* {gid: "; ".join(sorted(merged_desc_map.get(gid, []))) for gid in merged_desc_map}
merged_desc_str(desc_map) == [g \in DOMAIN desc_map |-> join(s_sep, sorted(desc_map[g]))]

\* The annotation of one identifier (lines 503-543)
build_annotation_carrying(enid, e_symbol, e_gos, u_id, u_symbol, u_gos, n_id, n_symbol, n_gos) ==
    LET source_ensembl == [symbol |-> Or(e_symbol, Str(<<>>)), go |-> source_go(e_gos)]
        source_uniprot == [id |-> Or(u_id, Str(<<>>)), symbol |-> Or(u_symbol, Str(<<>>)),
                           go |-> source_go(u_gos)]
        source_ncbi == [id |-> Or(n_id, Str(<<>>)), symbol |-> Or(n_symbol, Str(<<>>)),
                        go |-> source_go(n_gos)]
        m == merge_go_maps(<<source_ensembl.go, source_uniprot.go, source_ncbi.go>>)
    IN  [ensembl_id |-> enid,
         sources |-> [ensembl |-> source_ensembl, uniprot |-> source_uniprot,
                      ncbi |-> source_ncbi],
         merged |-> [go_ids |-> sorted(m.ids \cup all_go_ids_global),
                     go_descriptions |-> merged_desc_str(m.desc_map)]]

build_annotation(enid, e_symbol, e_gos, u_id, u_symbol, u_gos, n_id, n_symbol, n_gos) ==
    LET source_ensembl == [symbol |-> Or(e_symbol, Str(<<>>)), go |-> source_go(e_gos)]
        source_uniprot == [id |-> Or(u_id, Str(<<>>)), symbol |-> Or(u_symbol, Str(<<>>)),
                           go |-> source_go(u_gos)]
        source_ncbi == [id |-> Or(n_id, Str(<<>>)), symbol |-> Or(n_symbol, Str(<<>>)),
                        go |-> source_go(n_gos)]
        m == merge_go_maps(<<source_ensembl.go, source_uniprot.go, source_ncbi.go>>)
    IN  [ensembl_id |-> enid,
         sources |-> [ensembl |-> source_ensembl, uniprot |-> source_uniprot,
                      ncbi |-> source_ncbi],
         merged |-> [go_ids |-> sorted(m.ids),
                     go_descriptions |-> merged_desc_str(m.desc_map)]]

symbols_seen_one(symbols) ==
    LET usable == {x \in symbols : Truthy(x) /\ IsStr(x) /\ Strip(x.v) # <<>>}
    IN  IF usable = {} THEN {} ELSE {Strip((CHOOSE x \in usable : TRUE).v)}

\* The symbols one identifier adds to gene_symbols_seen (lines 528-530)
symbols_seen(symbols) ==
    {Strip(s.v) : s \in {x \in symbols : Truthy(x) /\ IsStr(x) /\ Strip(x.v) # <<>>}}

symbol_usable(val) == Truthy(val) /\ IsStr(val) /\ Strip(val.v) # <<>>

_choose_preferred_symbol_ncbi_first(sources) ==
    IF symbol_usable(sources.ncbi.symbol) THEN Strip(sources.ncbi.symbol.v)
    ELSE IF symbol_usable(sources.uniprot.symbol) THEN Strip(sources.uniprot.symbol.v)
    ELSE IF symbol_usable(sources.ensembl.symbol) THEN Strip(sources.ensembl.symbol.v)
    ELSE <<>>

\* _choose_preferred_symbol(sources): Ensembl, then UniProt, then NCBI
_choose_preferred_symbol(sources) ==
    IF symbol_usable(sources.ensembl.symbol) THEN Strip(sources.ensembl.symbol.v)
    ELSE IF symbol_usable(sources.uniprot.symbol) THEN Strip(sources.uniprot.symbol.v)
    ELSE IF symbol_usable(sources.ncbi.symbol) THEN Strip(sources.ncbi.symbol.v)
    ELSE <<>>

\* _build_compat_annotation(ann): the annotation with gene_symbol, go_ids and
\* go_terms added
_build_compat_annotation(ann) ==
    [ensembl_id |-> ann.ensembl_id,
     sources |-> ann.sources,
     merged |-> ann.merged,
     gene_symbol |-> _choose_preferred_symbol(ann.sources),
     go_ids |-> ann.merged.go_ids,
     go_terms |-> [k \in DOMAIN ann.merged.go_ids |->
                      IF ann.merged.go_ids[k] \in DOMAIN ann.merged.go_descriptions
                        THEN ann.merged.go_descriptions[ann.merged.go_ids[k]]
                        ELSE <<>>]]

\* ids = [str(x).strip() for x in id_list if x and str(x).strip()]
RECURSIVE sanitize(_)
sanitize(lst) ==
    IF lst = <<>> THEN <<>>
    ELSE (IF Truthy(Head(lst)) /\ Strip(PyStr(Head(lst))) # <<>>
            THEN <<Strip(PyStr(Head(lst)))>>
            ELSE <<>>)
         \o sanitize(Tail(lst))

-----------------------------------------------------------------------------
(* ------------------------- sample strings of the pools ------------------ *)

id_A == <<69, 78, 83, 71, 48, 48, 48, 48, 48, 49, 52, 49, 53, 49, 48>>   \* "ENSG00000141510"

id_B_padded == <<32, 69, 78, 83, 71, 48, 50, 32>>   \* " ENSG02 "

blanks == <<32, 32>>   \* "  "

sym_TP53 == <<84, 80, 53, 51>>   \* "TP53"

sym_BRCA2 == <<66, 82, 67, 65, 50>>   \* "BRCA2"

sym_X == <<88>>   \* "X"

blank == <<32>>   \* " "

sym_padded == <<32, 84, 80, 53, 51, 32>>   \* " TP53 "

go_1 == <<71, 79, 58, 48, 48, 48, 54, 57, 49, 53>>   \* "GO:0006915"

go_1_lower == <<103, 111, 58, 48, 48, 48, 54, 57, 49, 53>>   \* "go:0006915"

go_2 == <<71, 79, 58, 48, 48, 48, 54, 50, 56, 49>>   \* "GO:0006281"

go_illshaped == <<71, 79, 58, 97, 112, 111, 112, 116, 111, 115, 105, 115>>   \* "GO:apoptosis"

d_apoptosis == <<97, 112, 111, 112, 116, 111, 115, 105, 115>>   \* "apoptosis"

d_apoptosis_padded == <<32, 97, 112, 111, 112, 116, 111, 115, 105, 115>>   \* " apoptosis"

d_process == <<80, 58, 97, 112, 111, 112, 116, 111, 116, 105, 99, 32, 112, 114, 111, 99, 101, 115, 115>>   \* "P:apoptotic process"

d_repair == <<68, 78, 65, 32, 114, 101, 112, 97, 105, 114>>   \* "DNA repair"

db_go_lower == <<103, 111>>   \* "go"

db_goslim == <<103, 111, 115, 108, 105, 109, 95, 103, 111, 97>>   \* "goslim_goa"

db_HGNC == <<72, 71, 78, 67>>   \* "HGNC"

acc_P04637 == <<80, 48, 52, 54, 51, 55>>   \* "P04637"

job_1 == <<106, 111, 98, 49>>   \* "job1"

ncbi_7157 == <<55, 49, 53, 55>>   \* "7157"

st_FINISHED == <<70, 73, 78, 73, 83, 72, 69, 68>>   \* "FINISHED"

st_RUNNING == <<82, 85, 78, 78, 73, 78, 71>>   \* "RUNNING"

key_other == <<71, 111, 69, 118, 105, 100, 101, 110, 99, 101, 84, 121, 112, 101>>   \* "GoEvidenceType"

-----------------------------------------------------------------------------
(* ------------------ what the providers answer (the pools) --------------- *)

Resp(kind, body) == [kind |-> kind, body |-> body]

\* A failure of every kind but "ok", around the empty body of an endpoint
Failures(kinds, body) == {Resp(k, body) : k \in kinds}

\* ---- Ensembl /lookup/id ----
LookupBody(dn, en) == [display_name |-> dn, external_name |-> en]

\* ---- Ensembl /xrefs/id ----
Xref(dbname, db_display_name, primary_id, display_id, description) ==
    [dbname |-> dbname, db_display_name |-> db_display_name, primary_id |-> primary_id,
     id |-> Absent, display_id |-> display_id, description |-> description]

\* a GO cross reference as Ensembl gives it
GoXref(primary_id, description) ==
    Xref(Str(s_GO), Str(s_GO), primary_id, primary_id, description)

\* ---- UniProt idmapping and search ----
RunBody(jobId) == [jobId |-> jobId, job_id |-> Absent, id |-> Absent]

StatusBody(jobStatus) == [jobStatus |-> jobStatus, status |-> Absent, job_status |-> Absent]

MappingItem(to, acc) == [to |-> to, primaryAccession |-> acc, id |-> Absent]

ResultsBody(results, toplevel) ==
    [results |-> results, mappedResults |-> NoList, data |-> NoList, records |-> NoList,
     toplevel |-> toplevel]

SearchItem(acc) == [primaryAccession |-> acc, accession |-> Absent, id |-> Absent]

SearchBody(results) == [results |-> results, entries |-> <<>>]

\* ---- UniProt entry ----
GenesBody(names) == [genes |-> [k \in DOMAIN names |-> [geneName_value |-> names[k]]]]

Prop(key, value) == [key |-> Str(key), value |-> value]

UpXref(database, id, pkind, plist) ==
    [database |-> database, type |-> Absent, id |-> id, pkind |-> pkind, plist |-> plist,
     pGO |-> Absent]

\* a GO cross reference with its term in the properties list
UpGo(id, term) ==
    UpXref(Str(s_GO), id, "list", <<Prop(key_other, Str(db_HGNC)), Prop(s_GoTerm, term)>>)

EntryBody(xrefs) == [uniProtKBCrossReferences |-> xrefs, dbReferences |-> <<>>]

\* ---- NCBI ----
EsearchBody(idlist) == [idlist |-> idlist]

SummaryBody(nomenclature_symbol, name) ==
    [nomenclature_symbol |-> nomenclature_symbol, name |-> name]

NcbiTerm(value, label) == [value |-> value, label |-> label]

GoFieldsBody(go_component, go_process) ==
    [go_component |-> go_component, go_function |-> <<>>, go_process |-> go_process]

\* The answers of the three providers in Spec: for the calls that decide
\* which way an identifier goes (the Ensembl lookup, the id mapping, the NCBI
\* search, and the Ensembl cross references) a failure and a success, for the
\* others one success.
World ==
    [lookup |->
        Failures({"raise", "status"}, LookupBody(Absent, Absent))
        \cup {Resp("ok", LookupBody(Str(sym_TP53), Absent))},
     xrefs |->
        Failures({"raise"}, <<>>)
        \cup {Resp("ok", <<GoXref(Str(go_1), Str(d_apoptosis))>>)},
     run |->
        Failures({"raise"}, RunBody(Absent))
        \cup {Resp("ok", RunBody(Str(job_1)))},
     poll |->
        Failures({"raise"}, StatusBody(Absent))
        \cup {Resp("ok", StatusBody(Str(s))) : s \in {st_FINISHED, st_RUNNING, s_error}},
     results |->
        {Resp("ok", ResultsBody(List(<<MappingItem(Str(acc_P04637), Absent)>>), NoList)),
         Resp("ok", ResultsBody(List(<<>>), NoList))},
     search |->
        Failures({"raise"}, SearchBody(<<>>))
        \cup {Resp("ok", SearchBody(<<SearchItem(Str(acc_P04637))>>))},
     up_symbol |->
        {Resp("ok", GenesBody(<<Str(sym_BRCA2)>>))},
     up_go |->
        {Resp("ok", EntryBody(<<UpGo(Str(go_1), Str(<<>>))>>))},
     esearch |->
        Failures({"raise"}, EsearchBody(<<>>))
        \cup {Resp("ok", EsearchBody(<<Str(ncbi_7157)>>))},
     ncbi_symbol |->
        {Resp("ok", SummaryBody(Absent, Str(sym_X)))},
     ncbi_go |->
        {Resp("ok", GoFieldsBody(<<>>, <<NcbiTerm(Str(go_2), Str(d_repair))>>))}]

\* The answers of the providers in SpecMerge: the run, results and search
\* endpoints of the id mapping as in World; for the endpoints that give
\* symbols and terms, also the answers with blank, padded, lower-case,
\* non-string, repeated and ill-shaped values; for the job status, every
\* status word of lines 138 and 140, in either case, under each of the three
\* keys, a status that is no string, none at all, and the failures.
RichWorld ==
    [World EXCEPT
     !.poll =
        Failures({"raise", "shape"}, StatusBody(Absent))
        \cup Failures({"status"}, StatusBody(Str(st_FINISHED)))
        \cup {Resp("ok", StatusBody(Str(s))) :
                s \in FinishedStatus \cup FailedStatus \cup {st_FINISHED, st_RUNNING}}
        \cup {Resp("ok", StatusBody(Absent)),
              Resp("ok", StatusBody(Num(1))),
              Resp("ok", [StatusBody(Absent) EXCEPT !.status = Str(st_FINISHED)]),
              Resp("ok", [StatusBody(Absent) EXCEPT !.job_status = Str(s_error)]),
              Resp("ok", [StatusBody(Str(st_RUNNING)) EXCEPT !.status = Str(st_FINISHED)])},
     !.lookup =
        Failures({"raise", "status", "nojson", "shape"}, LookupBody(Absent, Absent))
        \cup {Resp("ok", LookupBody(Str(sym_TP53), Absent)),
              Resp("ok", LookupBody(Absent, Str(sym_TP53))),
              Resp("ok", LookupBody(Str(<<>>), Absent)),
              Resp("ok", LookupBody(Str(blank), Absent)),
              Resp("ok", LookupBody(Str(sym_padded), Absent)),
              Resp("ok", LookupBody(Num(5), Absent))},
     !.xrefs =
        Failures({"raise", "status", "shape"}, <<>>)
        \cup {Resp("ok", <<GoXref(Str(go_1), Str(d_apoptosis))>>),
              Resp("ok", <<GoXref(Str(go_1_lower), Str(d_apoptosis_padded))>>),
              Resp("ok", <<GoXref(Str(blank), Str(d_process))>>),
              Resp("ok", <<Xref(Str(db_goslim), Absent, Str(go_1), Absent, Absent)>>),
              Resp("ok", <<Xref(Str(db_HGNC), Str(db_HGNC), Str(sym_TP53), Str(sym_TP53),
                                Absent),
                           GoXref(Str(go_2), Str(d_repair))>>),
              Resp("ok", <<GoXref(Str(go_1), Str(d_process)),
                           GoXref(Str(go_1), Str(d_apoptosis))>>),
              Resp("ok", <<Xref(Num(5), Absent, Str(go_1), Absent, Absent)>>)},
     !.up_symbol =
        Failures({"raise", "status"}, GenesBody(<<>>))
        \cup {Resp("ok", GenesBody(<<Str(sym_BRCA2)>>)),
              Resp("ok", GenesBody(<<>>))},
     !.up_go =
        Failures({"raise", "nojson"}, EntryBody(<<>>))
        \cup {Resp("ok", EntryBody(<<UpGo(Str(go_1), Str(d_apoptosis))>>)),
              Resp("ok", EntryBody(<<UpGo(Str(go_1), Absent)>>)),
              Resp("ok", EntryBody(<<UpGo(Str(go_1), Str(d_process)),
                                     UpGo(Str(go_2), Str(d_repair))>>)),
              Resp("ok", EntryBody(<<UpXref(Str(db_go_lower), Str(go_illshaped), "absent",
                                            <<>>)>>))},
     !.esearch =
        Failures({"raise", "status"}, EsearchBody(<<>>))
        \cup {Resp("ok", EsearchBody(<<Str(ncbi_7157)>>)),
              Resp("ok", EsearchBody(<<>>))},
     !.ncbi_symbol =
        Failures({"raise"}, SummaryBody(Absent, Absent))
        \cup {Resp("ok", SummaryBody(Str(sym_X), Str(sym_TP53))),
              Resp("ok", SummaryBody(Absent, Absent))},
     !.ncbi_go =
        Failures({"raise", "status"}, GoFieldsBody(<<>>, <<>>))
        \cup {Resp("ok", GoFieldsBody(<<>>, <<NcbiTerm(Str(go_2), Str(d_repair))>>)),
              Resp("ok", GoFieldsBody(<<NcbiTerm(Str(go_1), Str(d_apoptosis))>>, <<>>)),
              Resp("ok", GoFieldsBody(<<NcbiTerm(Str(go_1), Num(5))>>, <<>>)),
              Resp("ok", GoFieldsBody(<<NcbiTerm(Str(go_1), Str(blanks)),
                                        NcbiTerm(Absent, Str(d_repair))>>, <<>>))}]

-----------------------------------------------------------------------------
(* ----------------------- the invocation of the resolver ----------------- *)

\* The batch ceiling: MAX_IDS = 200 in the source, scaled down so that
\* batches longer than the ceiling fit in a small state space.
MAX_IDS == 2

\* Longest list of identifiers a caller sends.
MaxInput == 3

\* Iterations of the poll loop before the deadline has certainly passed (each
\* iteration sleeps SLEEP_BETWEEN_UNIPROT of the 12 seconds allowed).
MaxPolls == 2

\* len(search_queries)
NumSearchQueries == 4

gCfg == <<ENABLE_UNIPROT_FALLBACK, ENABLE_NCBI_FALLBACK, request>>

gInput == <<id_list, ids, idx>>

gEnsembl == <<en_symbol, en_gos>>

gUniprot == <<up_id, up_symbol, up_gos>>

gNcbi == <<ncbi_id, ncbi_symbol, ncbi_gos>>

gBatch == <<annotations, gene_symbols_seen, all_go_ids_global>>

gCounts == <<uniprot_fetch_count, ncbi_fetch_count>>

gMapping == <<job_id, polls, query>>

\* An invocation: a request to /annotate or a run of the CLI on a file.
\*   ctx       "http" or "cli"
\*   method    "POST" or "GET"
\*   json_ids  data["ids"] of the JSON body (NoList: absent or not a list)
\*   json_id1  data.get("id1") or data.get("ensembl1"); json_id2 alike
\*   arg_id1   request.args.get("id1") or request.args.get("ensembl1")
\*   lines     the lines of the file (CLI)
HttpPost(json_ids, id1, id2) ==
    [ctx |-> "http", method |-> "POST", json_ids |-> json_ids, json_id1 |-> id1,
     json_id2 |-> id2, arg_id1 |-> None, arg_id2 |-> None, lines |-> <<>>]

HttpGet(id1, id2) ==
    [ctx |-> "http", method |-> "GET", json_ids |-> NoList, json_id1 |-> None,
     json_id2 |-> None, arg_id1 |-> id1, arg_id2 |-> id2, lines |-> <<>>]

Cli(lines) ==
    [ctx |-> "cli", method |-> "GET", json_ids |-> NoList, json_id1 |-> None,
     json_id2 |-> None, arg_id1 |-> None, arg_id2 |-> None, lines |-> lines]

AnnInit(requests) ==
    /\ ENABLE_UNIPROT_FALLBACK \in BOOLEAN
    /\ ENABLE_NCBI_FALLBACK \in BOOLEAN
    /\ request \in requests
    /\ response = NoResponse
    /\ apc = "start"
    /\ id_list = <<>>
    /\ ids = <<>>
    /\ idx = 0
    /\ en_symbol = None
    /\ en_gos = <<>>
    /\ up_id = None
    /\ up_symbol = None
    /\ up_gos = <<>>
    /\ ncbi_id = None
    /\ ncbi_symbol = None
    /\ ncbi_gos = <<>>
    /\ annotations = <<>>
    /\ gene_symbols_seen = {}
    /\ all_go_ids_global = {}
    /\ uniprot_fetch_count = 0
    /\ ncbi_fetch_count = 0
    /\ job_id = None
    /\ polls = 0
    /\ query = 0
    /\ fetched = [for |-> <<>>, ensembl |-> "no", uniprot |-> "no", ncbi |-> "no"]
    /\ last_call = [adapter |-> "", kind |-> "", exc |-> FALSE, query |-> <<>>]

\* `if id1: ids.append(id1)`
Opt(x) == IF Truthy(x) THEN <<x>> ELSE <<>>

truncate_off_by_one(lst) ==
    SubSeq(lst, 1, IF Len(lst) < MAX_IDS + 1 THEN Len(lst) ELSE MAX_IDS + 1)

\* ids = ids[:MAX_IDS]
truncate(lst) == SubSeq(lst, 1, IF Len(lst) < MAX_IDS THEN Len(lst) ELSE MAX_IDS)

route_ids_capped(req) ==
    LET from_body ==
            IF req.method # "POST" THEN <<>>
            ELSE IF req.json_ids.islist THEN req.json_ids.items
            ELSE Opt(req.json_id1) \o Opt(req.json_id2)
    IN  truncate(IF from_body # <<>> THEN from_body
                 ELSE Opt(req.arg_id1) \o Opt(req.arg_id2))

\* The list `ids` that annotate() collects (lines 639-663)
route_ids(req) ==
    LET from_body ==
            IF req.method # "POST" THEN <<>>
            ELSE IF req.json_ids.islist THEN req.json_ids.items
            ELSE Opt(req.json_id1) \o Opt(req.json_id2)
    IN  IF from_body # <<>> THEN from_body
        ELSE Opt(req.arg_id1) \o Opt(req.arg_id2)

\* `if not ids: return 400`
annotate_reject_empty ==
    /\ apc = "start"
    /\ request.ctx = "http"
    /\ route_ids(request) = <<>>
    /\ response' = [status |-> "400", body |-> <<>>]
    /\ apc' = "done"
    /\ UNCHANGED <<gCfg, gInput, gEnsembl, gUniprot, gNcbi, gBatch, gCounts, gMapping>>
    /\ UNCHANGED <<fvars, fetched, last_call>>

\* `if len(ids) > MAX_IDS: return 400`
annotate_reject_too_many ==
    /\ apc = "start"
    /\ request.ctx = "http"
    /\ route_ids(request) # <<>>
    /\ Len(route_ids(request)) > MAX_IDS
    /\ response' = [status |-> "400", body |-> <<>>]
    /\ apc' = "done"
    /\ UNCHANGED <<gCfg, gInput, gEnsembl, gUniprot, gNcbi, gBatch, gCounts, gMapping>>
    /\ UNCHANGED <<fvars, fetched, last_call>>

\* `result = annotate_ensembl_ids(ids)`
annotate_call ==
    /\ apc = "start"
    /\ request.ctx = "http"
    /\ route_ids(request) # <<>>
    /\ Len(route_ids(request)) <= MAX_IDS
    /\ id_list' = route_ids(request)
    /\ apc' = "call"
    /\ UNCHANGED <<gCfg, response, ids, idx, gEnsembl, gUniprot, gNcbi, gBatch, gCounts,
                   gMapping>>
    /\ UNCHANGED <<fvars, fetched, last_call>>

RECURSIVE cli_lines(_)
\* ids = [line.strip() for line in fh if line.strip()]
cli_lines(lines) ==
    IF lines = <<>> THEN <<>>
    ELSE (IF Strip(Head(lines).v) # <<>> THEN <<Str(Strip(Head(lines).v))>> ELSE <<>>)
         \o cli_lines(Tail(lines))

\* The CLI: annotate_ensembl_ids(ids) on the lines of the file
cli_main ==
    /\ apc = "start"
    /\ request.ctx = "cli"
    /\ id_list' = cli_lines(request.lines)
    /\ apc' = "call"
    /\ UNCHANGED <<gCfg, response, ids, idx, gEnsembl, gUniprot, gNcbi, gBatch, gCounts,
                   gMapping>>
    /\ UNCHANGED <<fvars, fetched, last_call>>

(* ---------------------------- annotate_ensembl_ids ---------------------- *)

enid_last == ids[Len(ids)]

\* The identifier of the current iteration of `for enid in ids`
enid == ids[idx]

\* What the fetches sent to one provider for one identifier have come to,
\* after one more call of retry_get / retry_post that ended in `kind`:
\* "exhausted" while every call raised the RuntimeError of line 57 (82),
\* "answered" once a call returned a response
fetch_outcome(before, kind) ==
    IF kind = "raise" /\ before # "answered" THEN "exhausted" ELSE "answered"

try_except_absent(res, default) == res

\* try: v = adapter(...)  except Exception: v = default   (lines 445-448,
\* 452-455, 470-478, 485-501). An exception that were not caught here would
\* leave annotate_ensembl_ids: control point "raise".
try_except(res, default) == IF res.exc THEN Returns(default) ELSE res

AfterEnsembl_always == "up_run"

AfterUniprot_back == "en_gos"

\* Where the loop body goes once the Ensembl calls are done, and once the
\* UniProt calls are done (lines 461, 484): a disabled provider is skipped,
\* none of its adapters is called
AfterUniprot == IF ENABLE_NCBI_FALLBACK THEN "ncbi_id" ELSE "build"

AfterEnsembl == IF ENABLE_UNIPROT_FALLBACK THEN "up_run" ELSE AfterUniprot

\* Lines 430-439: sanitise and truncate the input, then enter the loop
annotate_ensembl_ids_begin ==
    /\ apc = "call"
    /\ ids' = truncate(sanitize(id_list))
    /\ idx' = 1
    /\ apc' = IF ids' = <<>> THEN "meta" ELSE "en_symbol"
    /\ UNCHANGED <<gCfg, response, id_list, gEnsembl, gUniprot, gNcbi, gBatch, gCounts,
                   gMapping>>
    /\ UNCHANGED <<fvars, fetched, last_call>>

\* Lines 443-448: en_symbol = get_gene_symbol(enid), None on an exception.
\* The first call for enid.
ensembl_symbol(W) ==
    /\ apc = "en_symbol"
    /\ \E r \in W.lookup :
        LET res == get_gene_symbol(r)
            out == try_except(res, None)
        IN  /\ en_symbol' = IF out.exc THEN en_symbol ELSE out.val
            /\ apc' = IF out.exc THEN "raise" ELSE "en_gos"
            /\ fetched' = [for |-> enid, ensembl |-> fetch_outcome("no", r.kind),
                           uniprot |-> "no", ncbi |-> "no"]
            /\ last_call' = [adapter |-> "get_gene_symbol", kind |-> r.kind, exc |-> res.exc,
                             query |-> enid]
    /\ UNCHANGED <<gCfg, response, gInput, en_gos, gUniprot, gNcbi, gBatch, gCounts, gMapping>>
    /\ UNCHANGED fvars

\* Lines 450-455: en_gos = get_go_xrefs(enid) or [], [] on an exception
ensembl_gos(W) ==
    /\ apc = "en_gos"
    /\ \E r \in W.xrefs :
        LET res == get_go_xrefs(r)
            out == try_except(res, <<>>)
        IN  /\ en_gos' = IF out.exc THEN en_gos ELSE out.val
            /\ apc' = IF out.exc THEN "raise" ELSE AfterEnsembl
            /\ fetched' = [fetched EXCEPT !.ensembl = fetch_outcome(@, r.kind)]
            /\ last_call' = [adapter |-> "get_go_xrefs", kind |-> r.kind, exc |-> res.exc,
                             query |-> enid]
    /\ UNCHANGED <<gCfg, response, gInput, en_symbol, gUniprot, gNcbi, gBatch, gCounts,
                   gMapping>>
    /\ UNCHANGED fvars
(* --------- get_uniprot_id_from_ensembl, as called at lines 461-465 ------ *)

\* search_queries (lines 205-210)
search_queries(ensembl_id) ==
    << <<120, 114, 101, 102, 58, 69, 110, 115, 101, 109, 98, 108, 58>> \o ensembl_id,
            \* f"xref:Ensembl:{ensembl_id}"
       <<120, 114, 101, 102, 58, 101, 110, 115, 101, 109, 98, 108, 45>> \o ensembl_id,
            \* f"xref:ensembl-{ensembl_id}"
       <<100, 97, 116, 97, 98, 97, 115, 101, 58, 101, 110, 115, 101, 109, 98, 108, 32, 65,
         78, 68, 32>> \o ensembl_id,
            \* f"database:ensembl AND {ensembl_id}"
       <<103, 101, 110, 101, 58>> \o ensembl_id >>
            \* f"gene:{ensembl_id}"

\* The mapping returns `value` (its locals are gone): lines 467-468 count the
\* fetch and go on to the UniProt entry when it is truthy.
mapping_done_counting_attempts(value) ==
    /\ up_id' = value
    /\ uniprot_fetch_count' = uniprot_fetch_count + 1
    /\ apc' = IF Truthy(value) THEN "up_symbol" ELSE AfterUniprot
    /\ job_id' = None
    /\ polls' = 0
    /\ query' = 0

mapping_done(value) ==
    /\ up_id' = value
    /\ uniprot_fetch_count' = IF Truthy(value) THEN uniprot_fetch_count + 1
                              ELSE uniprot_fetch_count
    /\ apc' = IF Truthy(value) THEN "up_symbol" ELSE AfterUniprot
    /\ job_id' = None
    /\ polls' = 0
    /\ query' = 0

\* Lines 178-188: POST idmapping/run and read the job id
uniprot_run(W) ==
    /\ apc = "up_run"
    /\ \E r \in W.run :
        LET job == idmapping_job_id(r)
        IN  /\ IF Truthy(job)
                 THEN /\ job_id' = job
                      /\ polls' = 0
                      /\ query' = 0
                      /\ apc' = "up_poll"
                 ELSE /\ job_id' = None
                      /\ polls' = 0
                      /\ query' = 1
                      /\ apc' = "up_search"
            /\ fetched' = [fetched EXCEPT !.uniprot = fetch_outcome(@, r.kind)]
            /\ last_call' = [adapter |-> "get_uniprot_id_from_ensembl", kind |-> r.kind,
                             exc |-> FALSE, query |-> enid]
    /\ UNCHANGED <<gCfg, response, gInput, gEnsembl, gUniprot, gNcbi, gBatch, gCounts>>
    /\ UNCHANGED fvars

\* One iteration of the loop of _uniprot_poll_job (lines 127-144), entered
\* while time.time() < deadline; the deadline goes with the return
uniprot_poll(W) ==
    /\ apc = "up_poll"
    /\ polls < MaxPolls
    /\ \E r \in W.poll :
        LET verdict == poll_verdict(r)
        IN  /\ CASE verdict = "finished" ->
                       /\ apc' = "up_results"
                       /\ polls' = 0
                       /\ UNCHANGED query
                 [] verdict = "failed" ->
                       /\ apc' = "up_search"
                       /\ query' = 1
                       /\ polls' = 0
                 [] OTHER ->
                       /\ apc' = "up_poll"
                       /\ polls' = polls + 1
                       /\ UNCHANGED query
            /\ fetched' = [fetched EXCEPT !.uniprot = fetch_outcome(@, r.kind)]
            /\ last_call' = [adapter |-> "get_uniprot_id_from_ensembl", kind |-> r.kind,
                             exc |-> FALSE, query |-> job_id.v, seen |-> r.body]
    /\ UNCHANGED <<gCfg, response, gInput, gEnsembl, gUniprot, gNcbi, gBatch, gCounts, job_id>>
    /\ UNCHANGED fvars

uniprot_poll_timeout_never ==
    /\ apc = "up_poll"
    /\ polls > MaxPolls
    /\ apc' = "up_search"
    /\ query' = 1
    /\ polls' = 0
    /\ UNCHANGED <<gCfg, response, gInput, gEnsembl, gUniprot, gNcbi, gBatch, gCounts, job_id>>
    /\ UNCHANGED <<fvars, fetched, last_call>>

\* Line 145: the deadline has passed, return False. The first test of the
\* loop condition comes right after the deadline is set, so it passes only
\* after an iteration.
uniprot_poll_timeout ==
    /\ apc = "up_poll"
    /\ polls >= 1
    /\ apc' = "up_search"
    /\ query' = 1
    /\ polls' = 0
    /\ UNCHANGED <<gCfg, response, gInput, gEnsembl, gUniprot, gNcbi, gBatch, gCounts, job_id>>
    /\ UNCHANGED <<fvars, fetched, last_call>>

\* Lines 191-199: the mapping results and their first candidate
uniprot_results(W) ==
    /\ apc = "up_results"
    /\ \E r \in W.results :
        LET candidate == mapping_candidate(_uniprot_get_mapping_results(r))
        IN  /\ IF Truthy(candidate)
                 THEN mapping_done(candidate)
                 ELSE /\ apc' = "up_search"
                      /\ query' = 1
                      /\ UNCHANGED <<up_id, uniprot_fetch_count, job_id, polls>>
            /\ fetched' = [fetched EXCEPT !.uniprot = fetch_outcome(@, r.kind)]
            /\ last_call' = [adapter |-> "get_uniprot_id_from_ensembl", kind |-> r.kind,
                             exc |-> FALSE, query |-> job_id.v]
    /\ UNCHANGED <<gCfg, response, gInput, gEnsembl, up_symbol, up_gos, gNcbi, gBatch,
                   ncbi_fetch_count>>
    /\ UNCHANGED fvars

\* Lines 212-229: one search query; the next one when it finds nothing, None
\* after the last
uniprot_search(W) ==
    /\ apc = "up_search"
    /\ \E r \in W.search :
        LET accession == search_accession(r)
        IN  /\ IF Truthy(accession)
                 THEN mapping_done(accession)
                 ELSE IF query < NumSearchQueries
                 THEN /\ query' = query + 1
                      /\ UNCHANGED <<apc, up_id, uniprot_fetch_count, job_id, polls>>
                 ELSE mapping_done(None)
            /\ fetched' = [fetched EXCEPT !.uniprot = fetch_outcome(@, r.kind)]
            /\ last_call' = [adapter |-> "get_uniprot_id_from_ensembl", kind |-> r.kind,
                             exc |-> FALSE, query |-> search_queries(enid)[query]]
    /\ UNCHANGED <<gCfg, response, gInput, gEnsembl, up_symbol, up_gos, gNcbi, gBatch,
                   ncbi_fetch_count>>
    /\ UNCHANGED fvars

\* Lines 469-473: up_symbol = get_gene_symbol_from_uniprot(up_id); the adapter
\* sends its fetch when UniProt is enabled and up_id is truthy (line 233)
uniprot_symbol(W) ==
    /\ apc = "up_symbol"
    /\ \E r \in W.up_symbol :
        LET res == get_gene_symbol_from_uniprot(ENABLE_UNIPROT_FALLBACK, up_id, r)
            out == try_except(res, None)
            sends == ENABLE_UNIPROT_FALLBACK /\ Truthy(up_id)
        IN  /\ up_symbol' = IF out.exc THEN up_symbol ELSE out.val
            /\ apc' = IF out.exc THEN "raise" ELSE "up_gos"
            /\ fetched' = IF sends
                            THEN [fetched EXCEPT !.uniprot = fetch_outcome(@, r.kind)]
                            ELSE fetched
            /\ last_call' = [adapter |-> "get_gene_symbol_from_uniprot",
                             kind |-> IF sends THEN r.kind ELSE "", exc |-> res.exc,
                             query |-> PyStr(up_id)]
    /\ UNCHANGED <<gCfg, response, gInput, gEnsembl, up_id, up_gos, gNcbi, gBatch, gCounts,
                   gMapping>>
    /\ UNCHANGED fvars

\* Lines 474-478: up_gos = get_go_terms_from_uniprot(up_id) or []
uniprot_gos(W) ==
    /\ apc = "up_gos"
    /\ \E r \in W.up_go :
        LET res == get_go_terms_from_uniprot(ENABLE_UNIPROT_FALLBACK, up_id, r)
            out == try_except(res, <<>>)
            sends == ENABLE_UNIPROT_FALLBACK /\ Truthy(up_id)
        IN  /\ up_gos' = IF out.exc THEN up_gos ELSE out.val
            /\ apc' = IF out.exc THEN "raise" ELSE AfterUniprot
            /\ fetched' = IF sends
                            THEN [fetched EXCEPT !.uniprot = fetch_outcome(@, r.kind)]
                            ELSE fetched
            /\ last_call' = [adapter |-> "get_go_terms_from_uniprot",
                             kind |-> IF sends THEN r.kind ELSE "", exc |-> res.exc,
                             query |-> PyStr(up_id)]
    /\ UNCHANGED <<gCfg, response, gInput, gEnsembl, up_id, up_symbol, gNcbi, gBatch, gCounts,
                   gMapping>>
    /\ UNCHANGED fvars

(* ------------------------------ NCBI, lines 480-501 --------------------- *)

\* ncbi_id = get_ncbi_gene_id_from_ensembl(enid); lines 490-491 count the
\* fetch. The adapter sends its fetch when NCBI is enabled (line 301).
ncbi_search(W) ==
    /\ apc = "ncbi_id"
    /\ \E r \in W.esearch :
        LET res == get_ncbi_gene_id_from_ensembl(ENABLE_NCBI_FALLBACK, r)
            out == try_except(res, None)
            sends == ENABLE_NCBI_FALLBACK
        IN  /\ ncbi_id' = IF out.exc THEN ncbi_id ELSE out.val
            /\ ncbi_fetch_count' = IF ~out.exc /\ Truthy(out.val) THEN ncbi_fetch_count + 1
                                   ELSE ncbi_fetch_count
            /\ apc' = IF out.exc THEN "raise"
                      ELSE IF Truthy(out.val) THEN "ncbi_symbol" ELSE "build"
            /\ fetched' = IF sends
                            THEN [fetched EXCEPT !.ncbi = fetch_outcome(@, r.kind)]
                            ELSE fetched
            /\ last_call' = [adapter |-> "get_ncbi_gene_id_from_ensembl",
                             kind |-> IF sends THEN r.kind ELSE "", exc |-> res.exc,
                             query |-> enid]
    /\ UNCHANGED <<gCfg, response, gInput, gEnsembl, gUniprot, ncbi_symbol, ncbi_gos, gBatch,
                   uniprot_fetch_count, gMapping>>
    /\ UNCHANGED fvars

\* ncbi_symbol = get_gene_symbol_from_ncbi(ncbi_id)
ncbi_summary_symbol(W) ==
    /\ apc = "ncbi_symbol"
    /\ \E r \in W.ncbi_symbol :
        LET res == get_gene_symbol_from_ncbi(ENABLE_NCBI_FALLBACK, ncbi_id, r)
            out == try_except(res, None)
            sends == ENABLE_NCBI_FALLBACK /\ Truthy(ncbi_id)
        IN  /\ ncbi_symbol' = IF out.exc THEN ncbi_symbol ELSE out.val
            /\ apc' = IF out.exc THEN "raise" ELSE "ncbi_gos"
            /\ fetched' = IF sends
                            THEN [fetched EXCEPT !.ncbi = fetch_outcome(@, r.kind)]
                            ELSE fetched
            /\ last_call' = [adapter |-> "get_gene_symbol_from_ncbi",
                             kind |-> IF sends THEN r.kind ELSE "", exc |-> res.exc,
                             query |-> PyStr(ncbi_id)]
    /\ UNCHANGED <<gCfg, response, gInput, gEnsembl, gUniprot, ncbi_id, ncbi_gos, gBatch,
                   gCounts, gMapping>>
    /\ UNCHANGED fvars

\* ncbi_gos = get_go_terms_from_ncbi(ncbi_id) or []
ncbi_summary_gos(W) ==
    /\ apc = "ncbi_gos"
    /\ \E r \in W.ncbi_go :
        LET res == get_go_terms_from_ncbi(ENABLE_NCBI_FALLBACK, ncbi_id, r)
            out == try_except(res, <<>>)
            sends == ENABLE_NCBI_FALLBACK /\ Truthy(ncbi_id)
        IN  /\ ncbi_gos' = IF out.exc THEN ncbi_gos ELSE out.val
            /\ apc' = IF out.exc THEN "raise" ELSE "build"
            /\ fetched' = IF sends
                            THEN [fetched EXCEPT !.ncbi = fetch_outcome(@, r.kind)]
                            ELSE fetched
            /\ last_call' = [adapter |-> "get_go_terms_from_ncbi",
                             kind |-> IF sends THEN r.kind ELSE "", exc |-> res.exc,
                             query |-> PyStr(ncbi_id)]
    /\ UNCHANGED <<gCfg, response, gInput, gEnsembl, gUniprot, ncbi_id, ncbi_symbol, gBatch,
                   gCounts, gMapping>>
    /\ UNCHANGED fvars
(* ------------------ lines 503-568: the annotation, the result ----------- *)

\* Lines 503-545: build the annotation of enid, add its ids and symbols to
\* the batch-level sets, and go on to the next identifier
annotate_build ==
    /\ apc = "build"
    /\ LET annotation == build_annotation(enid, en_symbol, en_gos, up_id, up_symbol, up_gos,
                                          ncbi_id, ncbi_symbol, ncbi_gos)
       IN  /\ annotations' = Append(annotations, annotation)
           /\ all_go_ids_global' = all_go_ids_global \cup Range(annotation.merged.go_ids)
           /\ gene_symbols_seen' =
                gene_symbols_seen \cup symbols_seen({en_symbol, up_symbol, ncbi_symbol})
    /\ IF idx < Len(ids)
         THEN /\ idx' = idx + 1
              /\ apc' = "en_symbol"
         ELSE /\ idx' = idx
              /\ apc' = "meta"
    \* the next iteration starts from fresh locals (lines 444-483)
    /\ en_symbol' = None
    /\ en_gos' = <<>>
    /\ up_id' = None
    /\ up_symbol' = None
    /\ up_gos' = <<>>
    /\ ncbi_id' = None
    /\ ncbi_symbol' = None
    /\ ncbi_gos' = <<>>
    /\ last_call' = [adapter |-> "", kind |-> "", exc |-> FALSE, query |-> <<>>]
    /\ UNCHANGED <<gCfg, response, id_list, ids, gCounts, gMapping, fetched>>
    /\ UNCHANGED fvars

build_result_counting_survivors ==
    [annotations |-> annotations,
     gene_symbols |-> sorted(gene_symbols_seen),
     go_ids |-> sorted(all_go_ids_global),
     meta |-> [count_input |-> Len(ids),
               count_processed |-> Len(ids),
               uniprot |-> [enabled |-> ENABLE_UNIPROT_FALLBACK,
                            fetch_count |-> uniprot_fetch_count],
               ncbi |-> [enabled |-> ENABLE_NCBI_FALLBACK,
                         fetch_count |-> ncbi_fetch_count]]]

\* The dict returned by annotate_ensembl_ids (lines 548-566), without the
\* version and the timestamp
build_result ==
    [annotations |-> annotations,
     gene_symbols |-> sorted(gene_symbols_seen),
     go_ids |-> sorted(all_go_ids_global),
     meta |-> [count_input |-> Len(id_list),
               count_processed |-> Len(ids),
               uniprot |-> [enabled |-> ENABLE_UNIPROT_FALLBACK,
                            fetch_count |-> uniprot_fetch_count],
               ncbi |-> [enabled |-> ENABLE_NCBI_FALLBACK,
                         fetch_count |-> ncbi_fetch_count]]]

\* `return result`
annotate_ensembl_ids_return ==
    /\ apc = "meta"
    /\ response' = [status |-> "result", body |-> build_result]
    /\ apc' = "returned"
    /\ UNCHANGED <<gCfg, gInput, gEnsembl, gUniprot, gNcbi, gBatch, gCounts, gMapping>>
    /\ UNCHANGED <<fvars, fetched, last_call>>

\* Lines 676-685: the compatibility view, returned with status 200.
\* (The `except Exception` of line 673 has nothing to catch: no statement of
\* annotate_ensembl_ids raises on the values the adapters return.)
annotate_respond ==
    /\ apc = "returned"
    /\ request.ctx = "http"
    /\ response' = [status |-> "200",
                    body |-> [response.body EXCEPT !.annotations =
                                [k \in DOMAIN response.body.annotations |->
                                    _build_compat_annotation(response.body.annotations[k])]]]
    /\ apc' = "done"
    /\ UNCHANGED <<gCfg, gInput, gEnsembl, gUniprot, gNcbi, gBatch, gCounts, gMapping>>
    /\ UNCHANGED <<fvars, fetched, last_call>>

\* Line 710-711: print the result, exit 0
cli_print ==
    /\ apc = "returned"
    /\ request.ctx = "cli"
    /\ response' = [status |-> "exit 0", body |-> response.body]
    /\ apc' = "done"
    /\ UNCHANGED <<gCfg, gInput, gEnsembl, gUniprot, gNcbi, gBatch, gCounts, gMapping>>
    /\ UNCHANGED <<fvars, fetched, last_call>>

-----------------------------------------------------------------------------
(* ------------------------------ specifications -------------------------- *)

\* No call of retry_get / retry_post is being followed
FetchIdle ==
    /\ method = "GET"
    /\ attempt = 0
    /\ backoff = InitialBackoff
    /\ slept = <<>>
    /\ sent = 0
    /\ outcomes = <<>>
    /\ fpc = "idle"
    /\ resp = 0

\* The values a caller puts in a list of identifiers
IdPool == {Str(id_A), Str(id_B_padded), Str(blanks)}

\* The lists of up to n values sent as {"ids": [...]}: every list of id_A and
\* blanks, and the lists that alternate id_B_padded and id_A
IdLists(n) ==
    UNION {[1..k -> {Str(id_A), Str(blanks)}] : k \in 0..n}
    \cup {[i \in 1..k |-> IF i % 2 = 1 THEN Str(id_B_padded) ELSE Str(id_A)] : k \in 1..n}

\* The lines of the files given to the command line: no line, and MaxInput
\* lines of which the first is of IdPool and the others alternate id_A and
\* id_B_padded
FileLines ==
    {<<>>}
    \cup {[i \in 1..MaxInput |-> IF i = 1 THEN first
                                 ELSE IF i % 2 = 0 THEN Str(id_A) ELSE Str(id_B_padded)] :
            first \in IdPool}

\* The invocations of Spec: the lists of up to MaxInput identifiers, the
\* files, and the id1/id2 forms
Requests ==
    {HttpPost(List(l), None, None) : l \in IdLists(MaxInput)}
    \cup {Cli(l) : l \in FileLines}
    \cup {HttpPost(NoList, a, b) : a \in {None, Str(blanks)}, b \in {None, Str(id_A)}}
    \cup {HttpGet(a, b) : a \in {None, Str(id_A)}, b \in {None, Str(id_B_padded)}}

\* The invocations of SpecMerge: one identifier survives, or the route rejects
MergeRequests ==
    {HttpPost(List(<<Str(id_B_padded)>>), None, None),
     HttpPost(List(<<>>), None, None),
     HttpPost(List([k \in 1..(MAX_IDS + 1) |-> Str(id_A)]), None, None),
     HttpGet(Str(id_A), None),
     Cli(<<Str(blanks), Str(id_A)>>)}

\* One step of an invocation, the providers answering from W
Invocation(W) ==
    \/ annotate_reject_empty
    \/ annotate_reject_too_many
    \/ annotate_call
    \/ cli_main
    \/ annotate_ensembl_ids_begin
    \/ ensembl_symbol(W)
    \/ ensembl_gos(W)
    \/ uniprot_run(W)
    \/ uniprot_poll(W)
    \/ uniprot_poll_timeout
    \/ uniprot_results(W)
    \/ uniprot_search(W)
    \/ uniprot_symbol(W)
    \/ uniprot_gos(W)
    \/ ncbi_search(W)
    \/ ncbi_summary_symbol(W)
    \/ ncbi_summary_gos(W)
    \/ annotate_build
    \/ annotate_ensembl_ids_return
    \/ annotate_respond
    \/ cli_print

Next == Invocation(World)

Init == FetchIdle /\ AnnInit(Requests)

Spec == Init /\ [][Next]_vars

NextMerge == Invocation(RichWorld)

InitMerge == FetchIdle /\ AnnInit(MergeRequests)

SpecMerge == InitMerge /\ [][NextMerge]_vars

\* SpecMerge with the one thread of the program running on: an iteration of
\* the loop of _uniprot_poll_job, or its exit at the deadline, is taken
\* whenever one is due (every call of the loop body returns or raises, since
\* each request has a timeout and retry_get a maximal number of attempts)
SpecPoll == SpecMerge /\ WF_vars(uniprot_poll(RichWorld) \/ uniprot_poll_timeout)

(* --------------------- claims about the fetch client -------------------- *)

FetchDone == fpc \in {"returned", "raised"}

\* C1: backoff sleeps happen only before a retry attempt: the k-th sleep of a
\* call lasts 2^(k-1) time units, and no sleep follows the final failed
\* attempt, so a call whose 5 attempts all fail retryably has slept exactly
\* 1, 2, 4, 8 when it signals exhaustion.
C1_SleepOnlyBeforeRetry ==
    /\ \A k \in 1..Len(slept) : slept[k] = 2^(k - 1)
    /\ FetchDone => Len(slept) = sent - 1
    /\ fpc = "raised" => slept = <<1, 2, 4, 8>>

\* C2: one call issues at most 5 requests, and a request after the first is
\* issued only when every earlier attempt ended in a transport exception or
\* in status 429 or 503.
C2_AtMostFiveRequestsRetryOnlyOnRetryable ==
    /\ sent <= 5
    /\ \A k \in 1..Len(outcomes) :
        k < sent => (outcomes[k].exc \/ outcomes[k].code \in {429, 503})

C2_Witness ==
    /\ sent = 5
    /\ fpc = "inflight"
    /\ outcomes[1].exc
    /\ outcomes[2].code = 429
    /\ outcomes[3].code = 503

\* C3: a transport answering 503, 503 and then 200 yields the successful
\* response after exactly 2 backoff sleeps (1, then 2) and 3 requests, with
\* no error raised.
C3_TwoFailuresThenSuccess ==
    outcomes = << [exc |-> FALSE, code |-> 503],
                  [exc |-> FALSE, code |-> 503],
                  [exc |-> FALSE, code |-> 200] >>
        => /\ fpc = "returned"
           /\ resp = 200
           /\ slept = <<1, 2>>
           /\ sent = 3

C3_Witness ==
    /\ method = "GET"
    /\ fpc = "returned"
    /\ Len(outcomes) = 3
    /\ outcomes[1].code = 503
    /\ outcomes[2].code = 503
    /\ outcomes[3].code = 200

\* C4: a finished call has raised if and only if each of its 5 attempts ended
\* in a transport exception or in status 429/503; otherwise it has returned
\* the response of its last attempt.
C4_RaiseIffAllAttemptsRetryable ==
    FetchDone =>
        /\ (fpc = "raised") <=>
              /\ Len(outcomes) = 5
              /\ \A k \in 1..5 : outcomes[k].exc \/ outcomes[k].code \in {429, 503}
        /\ fpc = "returned" =>
              /\ Len(outcomes) >= 1
              /\ ~outcomes[Len(outcomes)].exc
              /\ resp = outcomes[Len(outcomes)].code

C4_Witness ==
    /\ fpc = "raised"
    /\ outcomes[1].exc
    /\ outcomes[5].code = 503

\* C5: an attempt that receives a non-2xx status other than 429 and 503 ends
\* the call at once: that response is returned, it is the last request, no
\* sleep follows it and nothing is raised, whatever the attempt number.
C5_OtherStatusReturnedImmediately ==
    \A k \in 1..Len(outcomes) :
        (~outcomes[k].exc /\ outcomes[k].code \in {404, 500})
            => /\ k = Len(outcomes)
               /\ sent = k
               /\ fpc = "returned"
               /\ resp = outcomes[k].code
               /\ Len(slept) = k - 1

C5_Witness ==
    /\ Len(outcomes) = 3
    /\ outcomes[3].code = 404
    /\ fpc = "returned"
    /\ method = "POST"



-----------------------------------------------------------------------------
(* ---------------- claims about the annotations and the batch ------------ *)

\* The (id, description) tuples of the three source records of an annotation
RecordTuples(a) ==
    Range(a.sources.ensembl.go) \cup Range(a.sources.uniprot.go) \cup Range(a.sources.ncbi.go)

\* A sequence is in strictly ascending string order
Ascending(s) == \A i, j \in DOMAIN s : i < j => StrLess(s[i], s[j])

\* The ways of writing the set D as an ascending sequence without repetition
Orderings(D) ==
    {s \in [1..Cardinality(D) -> D] : Range(s) = D /\ Ascending(s)}

\* C6: for every annotation built by annotate_ensembl_ids, merged.go_ids is
\* exactly the set union of the term ids of its three source records (ids
\* compared after upper-casing), in ascending string order, without duplicates.
C6_MergedIdsAreUnionOfRecordIds ==
    \A k \in DOMAIN annotations :
        LET a == annotations[k]
        IN  /\ Range(a.merged.go_ids) = {Upper(t.gid) : t \in RecordTuples(a)}
            /\ Ascending(a.merged.go_ids)

\* C7: for every annotation, the keys of merged.go_descriptions are exactly
\* the ids of merged.go_ids, and an id for which every source record carries
\* the empty description has the empty string as its value.
C7_DescriptionKeysAreMergedIds ==
    \A k \in DOMAIN annotations :
        LET a == annotations[k]
        IN  /\ DOMAIN a.merged.go_descriptions = Range(a.merged.go_ids)
            /\ \A g \in Range(a.merged.go_ids) :
                  (\A t \in RecordTuples(a) : t.gid = g => t.desc = Str(<<>>))
                      => a.merged.go_descriptions[g] = <<>>

\* Two ids are merged, one described (GO:0006281) and one that no source
\* describes (GO:0006915)
C7_Witness ==
    \E k \in DOMAIN annotations :
        /\ annotations[k].merged.go_ids = <<go_2, go_1>>
        /\ annotations[k].merged.go_descriptions[go_1] = <<>>
        /\ annotations[k].merged.go_descriptions[go_2] = d_repair

\* The descriptions the source records give for id g: as they stand, and
\* trimmed of surrounding whitespace
RawDescriptions(a, g) ==
    {t.desc.v : t \in {u \in RecordTuples(a) : u.gid = g /\ u.desc.t = "str" /\ u.desc.v # <<>>}}

TrimmedDescriptions(a, g) ==
    {Strip(t.desc.v) : t \in {u \in RecordTuples(a) :
                                u.gid = g /\ u.desc.t = "str" /\ Strip(u.desc.v) # <<>>}}

\* The source records of a that list id g
ListingSources(a, g) ==
    {src \in {"ensembl", "uniprot", "ncbi"} : \E t \in Range(a.sources[src].go) : t.gid = g}

\* C8 (as stated): for every term id listed by more than one source with
\* differing non-empty descriptions, the merged description is the distinct
\* descriptions, each once, in ascending order, joined by "; ".
C8_DistinctDescriptionsJoined ==
    \A k \in DOMAIN annotations :
        LET a == annotations[k]
        IN  \A g \in DOMAIN a.merged.go_descriptions :
                (Cardinality(ListingSources(a, g)) > 1 /\ Cardinality(RawDescriptions(a, g)) > 1)
                    => \E s \in Orderings(RawDescriptions(a, g)) :
                          a.merged.go_descriptions[g] = join(s_sep, s)

\* C8 (amended): for every merged term id, the merged description is the
\* distinct descriptions of the source records, compared after trimming
\* surrounding whitespace, each once, in ascending code-point order, joined
\* by "; "; a description that is empty, blank or not a string contributes
\* nothing.
C8_TrimmedDescriptionsJoined ==
    \A k \in DOMAIN annotations :
        LET a == annotations[k]
        IN  \A g \in DOMAIN a.merged.go_descriptions :
                \E s \in Orderings(TrimmedDescriptions(a, g)) :
                    a.merged.go_descriptions[g] = join(s_sep, s)

\* GO:0006915 described " apoptosis" by Ensembl, "P:apoptotic process" by
\* UniProt and "apoptosis" by NCBI
C8_Witness ==
    \E k \in DOMAIN annotations :
        LET a == annotations[k]
        IN  /\ Term(go_1, Str(d_apoptosis_padded)) \in Range(a.sources.ensembl.go)
            /\ Term(go_1, Str(d_process)) \in Range(a.sources.uniprot.go)
            /\ Term(go_1, Str(d_apoptosis)) \in Range(a.sources.ncbi.go)
            /\ a.merged.go_descriptions[go_1] = d_process \o s_sep \o d_apoptosis

\* The symbols of the three source records, in the order ensembl, uniprot, ncbi
RecordSymbols(a) ==
    <<a.sources.ensembl.symbol, a.sources.uniprot.symbol, a.sources.ncbi.symbol>>

First(S) == CHOOSE i \in S : \A j \in S : i <= j

\* C9 (as stated): the preferred symbol of an annotation of a /annotate
\* response is the first non-empty symbol in the order ensembl, uniprot, ncbi,
\* and the empty string when all three are empty.
C9_FirstNonEmptySymbol ==
    response.status = "200" =>
        \A k \in DOMAIN response.body.annotations :
            LET a == response.body.annotations[k]
                syms == RecordSymbols(a)
                nonempty == {i \in 1..3 : syms[i] # Str(<<>>)}
            IN  a.gene_symbol = IF nonempty = {} THEN <<>> ELSE syms[First(nonempty)].v

\* C9 (amended): the preferred symbol is the first symbol, in the order
\* ensembl, uniprot, ncbi, that is a string and not blank, with its
\* surrounding whitespace trimmed, and the empty string when there is none;
\* it is non-empty only if some source has a non-empty symbol, and
\* ("", "BRCA2", "X") gives "BRCA2".
C9_FirstNonBlankSymbolTrimmed ==
    response.status = "200" =>
        \A k \in DOMAIN response.body.annotations :
            LET a == response.body.annotations[k]
                syms == RecordSymbols(a)
                usable == {i \in 1..3 : syms[i].t = "str" /\ Strip(syms[i].v) # <<>>}
            IN  /\ a.gene_symbol = IF usable = {} THEN <<>> ELSE Strip(syms[First(usable)].v)
                /\ a.gene_symbol # <<>> => \E i \in 1..3 : syms[i] # Str(<<>>)
                /\ syms = <<Str(<<>>), Str(sym_BRCA2), Str(sym_X)>> => a.gene_symbol = sym_BRCA2

\* Ensembl gives the blank symbol " ", UniProt "BRCA2", NCBI "X"
C9_Witness ==
    /\ response.status = "200"
    /\ \E k \in DOMAIN response.body.annotations :
        LET a == response.body.annotations[k]
        IN  /\ RecordSymbols(a) = <<Str(blank), Str(sym_BRCA2), Str(sym_X)>>
            /\ a.gene_symbol = sym_BRCA2

\* C10: an invocation whose batch holds no valid identifier after trimming
\* (an empty list, or only empty or blank entries) does not return an
\* annotation batch: where a batch is returned, the argument of
\* annotate_ensembl_ids held a non-blank identifier.
C10_NoValidIdentifierIsRejected ==
    response.status \in {"result", "200", "exit 0"}
        => \E i \in DOMAIN id_list : Strip(PyStr(id_list[i])) # <<>>

-----------------------------------------------------------------------------
(* -------------------- the batch: ceiling, order, outages ---------------- *)

RECURSIVE TrimLeft(_)
\* s without its leading whitespace
TrimLeft(s) == IF s = <<>> \/ ~IsSpace(Head(s)) THEN s ELSE TrimLeft(Tail(s))

RECURSIVE TrimRight(_)
\* s without its trailing whitespace
TrimRight(s) ==
    IF s = <<>> \/ ~IsSpace(s[Len(s)]) THEN s ELSE TrimRight(SubSeq(s, 1, Len(s) - 1))

\* s without its leading and trailing whitespace
Trimmed(s) == TrimRight(TrimLeft(s))

\* The trimmed non-blank entries of a list of strings, in their order
Survivors(lst) ==
    LET trimmed == [i \in DOMAIN lst |-> Trimmed(lst[i].v)]
    IN  SelectSeq(trimmed, LAMBDA x : x # <<>>)

\* The first n entries of s, all of s when it has fewer
FirstN(s, n) == [i \in 1..(IF Len(s) < n THEN Len(s) ELSE n) |-> s[i]]

\* C11: whatever the length of the list given to annotate_ensembl_ids, it
\* resolves at most MAX_IDS identifiers: the identifiers it resolves are the
\* first MAX_IDS trimmed non-blank entries of the list, it records at most
\* MAX_IDS annotations, and a provider is only ever fetched for an entry at a
\* position within the first MAX_IDS survivors.
C11_NeverMoreThanMaxBatch ==
    LET survivors == Survivors(id_list)
    IN  /\ Len(ids) <= MAX_IDS
        /\ Len(annotations) <= MAX_IDS
        /\ idx <= MAX_IDS
        /\ apc \notin {"start", "call"} => ids = FirstN(survivors, MAX_IDS)
        /\ fetched.for # <<>> =>
            \E i \in {idx - 1, idx} \cap 1..MAX_IDS :
                /\ i <= Len(survivors)
                /\ fetched.for = survivors[i]

\* A file of more than MAX_IDS non-blank lines has been resolved: MAX_IDS
\* annotations, the run is over
C11_Witness ==
    /\ request.ctx = "cli"
    /\ Len(Survivors(id_list)) > MAX_IDS
    /\ response.status = "exit 0"
    /\ Len(response.body.annotations) = MAX_IDS

\* No adapter has been called and no fetch sent in this invocation
NothingFetched ==
    /\ fetched = [for |-> <<>>, ensembl |-> "no", uniprot |-> "no", ncbi |-> "no"]
    /\ last_call.adapter = ""

\* The request is a POST to /annotate whose JSON list "ids" is longer than
\* MAX_IDS
LongRawList ==
    /\ request.ctx = "http"
    /\ request.method = "POST"
    /\ request.json_ids.islist
    /\ Len(request.json_ids.items) > MAX_IDS

\* C12: a POST to /annotate whose raw list has more than MAX_IDS entries,
\* blank ones counted, is answered 400 and nothing else: annotate_ensembl_ids
\* is never called on it (nothing is sanitised or truncated, no annotation is
\* made) and no fetch is sent to any provider.
C12_LongRawListRejected ==
    LongRawList =>
        /\ apc \in {"start", "done"}
        /\ apc = "done" => response.status = "400"
        /\ id_list = <<>>
        /\ ids = <<>>
        /\ annotations = <<>>
        /\ NothingFetched

\* A list of MAX_IDS + 1 entries of which one is not blank has been rejected
C12_Witness ==
    /\ LongRawList
    /\ Len(Survivors(request.json_ids.items)) = 1
    /\ response.status = "400"
    /\ apc = "done"

\* The identifiers of a sequence of annotations
AnnotatedIds(anns) == [i \in DOMAIN anns |-> anns[i].ensembl_id]

\* annotate_ensembl_ids has returned (and its caller may have answered)
Returned == response.status \in {"result", "200", "exit 0"}

\* C13: whatever the providers answered, the annotations returned are one per
\* surviving identifier (trimmed, non-blank, within the first MAX_IDS), entry
\* i carrying the i-th survivor, duplicates included; while the batch is being
\* resolved the annotations made so far carry the first survivors in order.
C13_OneAnnotationPerSurvivorInOrder ==
    LET expected == FirstN(Survivors(id_list), MAX_IDS)
    IN  /\ Len(annotations) <= Len(expected)
        /\ AnnotatedIds(annotations) = FirstN(expected, Len(annotations))
        /\ Returned => AnnotatedIds(response.body.annotations) = expected

\* " ENSG02 " then id_A were sent, the Ensembl lookup of the first failed,
\* and the response carries "ENSG02" then id_A
C13_Witness ==
    /\ response.status = "200"
    /\ id_list = <<Str(id_B_padded), Str(id_A)>>
    /\ AnnotatedIds(response.body.annotations) = <<Trimmed(id_B_padded), id_A>>
    /\ response.body.annotations[1].sources.ensembl.symbol = Str(<<>>)
    /\ response.body.annotations[2].sources.ensembl.symbol = Str(sym_TP53)

\* The empty records of a provider
EmptyEnsembl == [symbol |-> Str(<<>>), go |-> <<>>]

EmptyRecord == [id |-> Str(<<>>), symbol |-> Str(<<>>), go |-> <<>>]

\* The records that hold what the providers of World return
EnsemblData == [symbol |-> Str(sym_TP53), go |-> <<Term(go_1, Str(d_apoptosis))>>]

UniprotData ==
    [id |-> Str(acc_P04637), symbol |-> Str(sym_BRCA2), go |-> <<Term(go_1, Str(<<>>))>>]

NcbiData ==
    [id |-> Str(ncbi_7157), symbol |-> Str(sym_X), go |-> <<Term(go_2, Str(d_repair))>>]

\* The annotation made last is that of the identifier `fetched` is about
LastRecorded ==
    /\ apc \in {"en_symbol", "meta", "returned", "done"}
    /\ annotations # <<>>
    /\ fetched.for # <<>>

\* C14: no exception leaves annotate_ensembl_ids; when every fetch sent to a
\* provider for an identifier exhausted its retries, the record of that
\* provider in the annotation of that identifier is empty; and the records of
\* every annotation hold what their provider returned or nothing: the NCBI
\* record of an identifier NCBI answered for, the UniProt record of an
\* identifier that was mapped and the Ensembl symbol and terms are those of
\* World whatever happened to the other providers and identifiers.
C14_ExhaustedProviderLeavesEmptyRecord ==
    /\ apc # "raise"
    /\ LastRecorded =>
        LET a == annotations[Len(annotations)]
        IN  /\ a.ensembl_id = fetched.for
            /\ fetched.ensembl = "exhausted" => a.sources.ensembl = EmptyEnsembl
            /\ fetched.uniprot = "exhausted" => a.sources.uniprot = EmptyRecord
            /\ fetched.ncbi = "exhausted" => a.sources.ncbi = EmptyRecord
            /\ fetched.ncbi = "answered" => a.sources.ncbi = NcbiData
    /\ \A k \in DOMAIN annotations :
        LET s == annotations[k].sources
        IN  /\ s.ensembl.symbol \in {EmptyEnsembl.symbol, EnsemblData.symbol}
            /\ s.ensembl.go \in {EmptyEnsembl.go, EnsemblData.go}
            /\ s.uniprot \in {EmptyRecord, UniprotData}
            /\ s.ncbi \in {EmptyRecord, NcbiData}

\* Two identifiers were resolved; every fetch to Ensembl for the second
\* exhausted its retries: its Ensembl record is empty, its UniProt and NCBI
\* records and the Ensembl record of the first identifier hold their data
C14_Witness ==
    /\ response.status = "200"
    /\ Len(annotations) = 2
    /\ fetched.ensembl = "exhausted"
    /\ annotations[2].sources = [ensembl |-> EmptyEnsembl, uniprot |-> UniprotData,
                                 ncbi |-> NcbiData]
    /\ annotations[1].sources.ensembl = EnsemblData

\* C15: no exception leaves an adapter: whatever the fetch inside it came to
\* (exhausted retries, an error status, a payload that is not JSON or of
\* another shape), the call of the adapter returns a value.
C15_NoExceptionLeavesAnAdapter == last_call.adapter # "" => ~last_call.exc

\* The shape GO:<digits>
IsGoId(s) ==
    /\ Len(s) > 3
    /\ SubSeq(s, 1, 3) = s_GOcolon
    /\ \A i \in 4..Len(s) : s[i] \in 48..57

\* C16: every term id of every source record of every annotation, and every
\* id of merged.go_ids, has the shape GO:<digits>.
C16_TermIdsAreGoDigits ==
    \A k \in DOMAIN annotations :
        LET a == annotations[k]
        IN  /\ \A p \in {"ensembl", "uniprot", "ncbi"} :
                \A t \in DOMAIN a.sources[p].go : IsGoId(a.sources[p].go[t].gid)
            /\ \A g \in DOMAIN a.merged.go_ids : IsGoId(a.merged.go_ids[g])

\* The adapter called last was get_uniprot_id_from_ensembl and the fetch it
\* sent last was one of its searches
SearchSent ==
    /\ last_call.adapter = "get_uniprot_id_from_ensembl"
    /\ \E q \in 1..NumSearchQueries : last_call.query = search_queries(fetched.for)[q]

\* C17: a search that get_uniprot_id_from_ensembl sends after the direct
\* mapping gave no accession uses the symbol Ensembl returned for the
\* identifier: where Ensembl returned a symbol, the query holds it.
C17_SearchUsesPrimarySymbol ==
    (SearchSent /\ Truthy(en_symbol)) => Contains(last_call.query, en_symbol.v)

UniprotAdapters ==
    {"get_uniprot_id_from_ensembl", "get_gene_symbol_from_uniprot", "get_go_terms_from_uniprot"}

NcbiAdapters ==
    {"get_ncbi_gene_id_from_ensembl", "get_gene_symbol_from_ncbi", "get_go_terms_from_ncbi"}

\* C18: with UniProt disabled no fetch is ever sent to UniProt, none of its
\* adapters is called and the UniProt record of every annotation is empty;
\* likewise NCBI; and for every identifier recorded a fetch was sent to
\* Ensembl and to each enabled provider.
C18_DisabledProviderIsNeverQueried ==
    /\ ~ENABLE_UNIPROT_FALLBACK =>
        /\ fetched.uniprot = "no"
        /\ last_call.adapter \notin UniprotAdapters
        /\ \A k \in DOMAIN annotations : annotations[k].sources.uniprot = EmptyRecord
    /\ ~ENABLE_NCBI_FALLBACK =>
        /\ fetched.ncbi = "no"
        /\ last_call.adapter \notin NcbiAdapters
        /\ \A k \in DOMAIN annotations : annotations[k].sources.ncbi = EmptyRecord
    /\ LastRecorded =>
        /\ fetched.ensembl # "no"
        /\ ENABLE_UNIPROT_FALLBACK => fetched.uniprot # "no"
        /\ ENABLE_NCBI_FALLBACK => fetched.ncbi # "no"

\* UniProt is disabled and NCBI enabled; an identifier was resolved with the
\* data of Ensembl and NCBI and an empty UniProt record
C18_Witness ==
    /\ ~ENABLE_UNIPROT_FALLBACK
    /\ ENABLE_NCBI_FALLBACK
    /\ response.status = "200"
    /\ Len(annotations) = 1
    /\ annotations[1].sources = [ensembl |-> EnsemblData, uniprot |-> EmptyRecord,
                                 ncbi |-> NcbiData]
    /\ fetched = [for |-> annotations[1].ensembl_id, ensembl |-> "answered",
                  uniprot |-> "no", ncbi |-> "answered"]

\* The annotation a of a response is that of the scenario: the identifier
\* "ENSG00000141510", Ensembl returned the symbol "TP53" and the term
\* (GO:0006915, "apoptosis"), UniProt the same term with an empty
\* description, NCBI is disabled
Scenario(a) ==
    /\ id_A = <<69, 78, 83, 71, 48, 48, 48, 48, 48, 49, 52, 49, 53, 49, 48>>
    /\ id_list = <<Str(id_A)>>
    /\ a.ensembl_id = id_A
    /\ a.sources.ensembl = [symbol |-> Str(sym_TP53), go |-> <<Term(go_1, Str(d_apoptosis))>>]
    /\ a.sources.uniprot.go = <<Term(go_1, Str(<<>>))>>
    /\ ~ENABLE_NCBI_FALLBACK

\* C19: the response to the scenario has merged.go_ids = ["GO:0006915"],
\* merged.go_descriptions["GO:0006915"] = "apoptosis" and the preferred
\* symbol "TP53".
C19_EndToEndTP53 ==
    response.status = "200" =>
        \A k \in DOMAIN response.body.annotations :
            LET a == response.body.annotations[k]
            IN  Scenario(a) =>
                    /\ a.merged.go_ids = <<go_1>>
                    /\ DOMAIN a.merged.go_descriptions = {go_1}
                    /\ a.merged.go_descriptions[go_1] = d_apoptosis
                    /\ a.gene_symbol = sym_TP53
                    /\ a.sources.ncbi = EmptyRecord

\* The scenario has been answered
C19_Witness ==
    /\ response.status = "200"
    /\ Len(response.body.annotations) = 1
    /\ Scenario(response.body.annotations[1])
    /\ go_1 = <<71, 79, 58, 48, 48, 48, 54, 57, 49, 53>>
    /\ d_apoptosis = <<97, 112, 111, 112, 116, 111, 115, 105, 115>>
    /\ sym_TP53 = <<84, 80, 53, 51>>
    /\ response.body.annotations[1].merged.go_descriptions[go_1] = d_apoptosis

\* C20: the meta of every returned result has count_input equal to the length
\* of the list given to annotate_ensembl_ids, blank entries counted (for a
\* POST to /annotate: of the raw "ids" list), and count_processed equal to the
\* number of annotations of the result, which is at most count_input and at
\* most MAX_IDS.
C20_MetaCounts ==
    Returned =>
        LET m == response.body.meta
        IN  /\ m.count_input = Len(id_list)
            /\ (request.ctx = "http" /\ request.method = "POST" /\ request.json_ids.islist)
                    => m.count_input = Len(request.json_ids.items)
            /\ m.count_processed = Len(response.body.annotations)
            /\ m.count_processed <= m.count_input
            /\ m.count_processed <= MAX_IDS

\* A list of an identifier and a blank entry was answered: two supplied, one
\* processed
C20_Witness ==
    /\ response.status = "200"
    /\ request.json_ids.islist
    /\ request.json_ids.items = <<Str(id_A), Str(blanks)>>
    /\ response.body.meta.count_input = 2
    /\ response.body.meta.count_processed = 1
    /\ Len(response.body.annotations) = 1
-----------------------------------------------------------------------------
(* ------------- the order of the calls, independence, the totals --------- *)

\* The control points from which the next step is the call of an adapter
CallPoints ==
    {"en_symbol", "en_gos", "up_run", "up_poll", "up_results", "up_search", "up_symbol",
     "up_gos", "ncbi_id", "ncbi_symbol", "ncbi_gos"}

\* The place of an adapter in the order Ensembl, UniProt, NCBI (0: no call
\* yet for the identifier)
Rank(adapter) ==
    CASE adapter = "get_gene_symbol" -> 1
      [] adapter = "get_go_xrefs" -> 2
      [] adapter = "get_uniprot_id_from_ensembl" -> 3
      [] adapter = "get_gene_symbol_from_uniprot" -> 4
      [] adapter = "get_go_terms_from_uniprot" -> 5
      [] adapter = "get_ncbi_gene_id_from_ensembl" -> 6
      [] adapter = "get_gene_symbol_from_ncbi" -> 7
      [] adapter = "get_go_terms_from_ncbi" -> 8
      [] OTHER -> 0

\* A step that calls an adapter is for the identifier at idx, whose
\* predecessors are all recorded and which is not; it leaves idx and the
\* annotations alone; and the adapter comes no earlier in the order than the
\* one called before for this identifier, strictly later unless both calls
\* are fetches of the id mapping.
SequentialStep ==
    /\ apc \in CallPoints =>
        /\ idx \in DOMAIN ids
        /\ Len(annotations) = idx - 1
        /\ idx' = idx
        /\ annotations' = annotations
        /\ apc' \in CallPoints \cup {"build"}
        /\ fetched'.for = ids[idx]
        /\ Rank(last_call'.adapter) >= Rank(last_call.adapter)
        /\ Rank(last_call'.adapter) = Rank(last_call.adapter) => Rank(last_call.adapter) = 3
    /\ apc = "build" =>
        /\ Len(annotations') = idx
        /\ annotations'[idx].ensembl_id = ids[idx]
        /\ last_call'.adapter = ""
        /\ apc' \in {"en_symbol", "meta"}
        /\ apc' = "en_symbol" <=> idx' = idx + 1

\* C21: within one call of annotate_ensembl_ids the requests are issued one
\* after the other: every adapter call is for the identifier being resolved,
\* all earlier identifiers being recorded, in the order Ensembl, UniProt,
\* NCBI, and the first call for the next identifier comes after the
\* annotation of this one is recorded.
C21_StrictlySequential == [][SequentialStep]_vars

\* The last NCBI call for the second identifier has returned, the first
\* identifier being recorded and every provider fetched for the second
C21_Witness ==
    /\ apc = "build"
    /\ idx = 2
    /\ Len(annotations) = 1
    /\ last_call.adapter = "get_go_terms_from_ncbi"
    /\ fetched.for = ids[2]
    /\ fetched.ensembl # "no"
    /\ fetched.uniprot # "no"
    /\ fetched.ncbi # "no"

\* The locals of one iteration as lines 444-483 initialise them
FreshEnsembl == en_symbol = None /\ en_gos = <<>>

FreshUniprot == up_id = None /\ up_symbol = None /\ up_gos = <<>>

FreshNcbi == ncbi_id = None /\ ncbi_symbol = None /\ ncbi_gos = <<>>

\* The merged part of an annotation as lines 520-525 and 539-542 derive it
\* from the three source records of that annotation
MergedOf(sources) ==
    LET m == merge_go_maps(<<sources.ensembl.go, sources.uniprot.go, sources.ncbi.go>>)
    IN  [go_ids |-> sorted(m.ids), go_descriptions |-> merged_desc_str(m.desc_map)]

\* An iteration starts with nothing left from the one before; what a
\* provider that was not asked for this identifier contributes is nothing;
\* and the annotation recorded is made of the identifier and of what the
\* adapters returned in this iteration, the earlier annotations being left
\* as they were.
IndependentStep ==
    /\ apc = "en_symbol" => FreshEnsembl /\ FreshUniprot /\ FreshNcbi
    /\ apc = "build" =>
        LET a == annotations'[idx]
        IN  /\ fetched.for = ids[idx]
            /\ fetched.uniprot = "no" => FreshUniprot
            /\ fetched.ncbi = "no" => FreshNcbi
            /\ SubSeq(annotations', 1, idx - 1) = annotations
            /\ a.ensembl_id = ids[idx]
            /\ a.sources.ensembl =
                 [symbol |-> Or(en_symbol, Str(<<>>)), go |-> source_go(en_gos)]
            /\ a.sources.uniprot =
                 [id |-> Or(up_id, Str(<<>>)), symbol |-> Or(up_symbol, Str(<<>>)),
                  go |-> source_go(up_gos)]
            /\ a.sources.ncbi =
                 [id |-> Or(ncbi_id, Str(<<>>)), symbol |-> Or(ncbi_symbol, Str(<<>>)),
                  go |-> source_go(ncbi_gos)]
            /\ a.merged = MergedOf(a.sources)

\* C22: the annotation of an identifier is made of that identifier and of the
\* answers to its own requests only: every iteration starts from fresh
\* locals, the record appended is a function of the identifier and of the
\* values the adapters returned in this iteration, and nothing recorded
\* before is read or changed.
C22_AnnotationIndependentOfBatch == [][IndependentStep]_vars

\* The same identifier twice in one batch: the first occurrence got terms and
\* a symbol, the second got nothing from any provider and is recorded empty
C22_Witness ==
    /\ apc = "meta"
    /\ Len(annotations) = 2
    /\ annotations[1].ensembl_id = annotations[2].ensembl_id
    /\ annotations[1].merged.go_ids # <<>>
    /\ annotations[1].sources.ensembl.symbol # Str(<<>>)
    /\ annotations[2].merged.go_ids = <<>>
    /\ annotations[2].sources.ensembl.symbol = Str(<<>>)
    /\ annotations[2].sources.uniprot.id = Str(<<>>)
    /\ annotations[2].sources.ncbi.id = Str(<<>>)

\* The number of annotations whose record of the given provider has an id
KeysObtained(anns, provider) ==
    Cardinality({k \in DOMAIN anns : anns[k].sources[provider].id # Str(<<>>)})

\* A provider record without an id has neither a symbol nor terms
NoKeyNoData(rec) == rec.id = Str(<<>>) => rec.symbol = Str(<<>>) /\ rec.go = <<>>

\* C23: the symbol and the terms of UniProt and of NCBI are fetched only with
\* a native key in hand: a record of either provider with an empty id has an
\* empty symbol and no terms, and between two iterations, and in the metadata
\* of every result, the fetch_count of a provider is the number of
\* identifiers for which the provider gave a key.
C23_KeyBeforeFetch ==
    /\ apc \in {"up_symbol", "up_gos"} => Truthy(up_id)
    /\ apc \in {"ncbi_symbol", "ncbi_gos"} => Truthy(ncbi_id)
    /\ \A k \in DOMAIN annotations :
        /\ NoKeyNoData(annotations[k].sources.uniprot)
        /\ NoKeyNoData(annotations[k].sources.ncbi)
    /\ apc \in {"en_symbol", "meta", "returned", "done"} =>
        /\ uniprot_fetch_count = KeysObtained(annotations, "uniprot")
        /\ ncbi_fetch_count = KeysObtained(annotations, "ncbi")
    /\ Returned =>
        /\ response.body.meta.uniprot.fetch_count = KeysObtained(annotations, "uniprot")
        /\ response.body.meta.ncbi.fetch_count = KeysObtained(annotations, "ncbi")

\* A result of two identifiers: UniProt gave a key, and then a symbol, for the
\* first only, NCBI gave a key for the second only; each count is 1
C23_Witness ==
    /\ response.status = "result"
    /\ Len(annotations) = 2
    /\ annotations[1].sources.uniprot.id # Str(<<>>)
    /\ annotations[1].sources.uniprot.symbol # Str(<<>>)
    /\ annotations[2].sources.uniprot.id = Str(<<>>)
    /\ annotations[1].sources.ncbi.id = Str(<<>>)
    /\ annotations[2].sources.ncbi.id # Str(<<>>)
    /\ annotations[2].sources.ncbi.go # <<>>
    /\ response.body.meta.uniprot.fetch_count = 1
    /\ response.body.meta.ncbi.fetch_count = 1

\* The status a recorded poll shows: of a response with status 200 and a
\* JSON object, the first truthy value among the three keys, a string in
\* lower case; None when the request failed or gave no status
ObservedStatus(call) ==
    IF call.kind # "ok" THEN None
    ELSE LET b == call.seen
             raw == IF Truthy(Get(b.jobStatus)) THEN Get(b.jobStatus)
                    ELSE IF Truthy(Get(b.status)) THEN Get(b.status)
                    ELSE Get(b.job_status)
         IN  IF IsStr(raw) THEN Str(Lower(raw.v)) ELSE raw

ShowsFinished(call) == IsStr(ObservedStatus(call)) /\ ObservedStatus(call).v \in FinishedStatus

ShowsFailed(call) == IsStr(ObservedStatus(call)) /\ ObservedStatus(call).v \in FailedStatus

\* A step of the loop of _uniprot_poll_job: it polls again, returns True
\* (the results are fetched next) or returns False (the search is tried
\* next), and raises nothing; True only on a status just observed as
\* finished, False at once on one observed as failed, again only on anything
\* else, and False without a failed status only after an iteration.
PollStep ==
    apc = "up_poll" =>
        /\ apc' \in {"up_poll", "up_results", "up_search"}
        /\ apc' = "up_results" => last_call' # last_call /\ ShowsFinished(last_call')
        /\ ShowsFinished(last_call') => apc' = "up_results"
        /\ ShowsFailed(last_call') => apc' = "up_search" /\ polls' = 0
        /\ apc' = "up_poll" =>
            /\ polls' = polls + 1
            /\ ~ShowsFinished(last_call')
            /\ ~ShowsFailed(last_call')
        /\ apc' = "up_search" /\ ~ShowsFailed(last_call') => polls >= 1 /\ last_call' = last_call

\* C24: the poll of the id-mapping job always ends and never raises: it
\* returns True only on observing a status finished, complete or success,
\* False at once on failed or error, and False at the deadline when the
\* status stays unknown or the status requests keep failing.
C24_PollTerminates ==
    /\ [][PollStep]_vars
    /\ (apc = "up_poll") ~> (apc # "up_poll")

\* The poll has given up at the deadline: every status request of the job
\* failed or showed no final status, and the search is tried next
C24_Witness ==
    /\ apc = "up_search"
    /\ query = 1
    /\ last_call.adapter = "get_uniprot_id_from_ensembl"
    /\ last_call.query = job_1
    /\ last_call.kind \in {"raise", "status", "shape"}
    /\ fetched.uniprot = "answered"

\* The symbols of the three source records of the annotations
ReturnedSymbols(anns) ==
    UNION {{anns[k].sources.ensembl.symbol, anns[k].sources.uniprot.symbol,
            anns[k].sources.ncbi.symbol} : k \in DOMAIN anns}

\* C25: in every result the batch-level go_ids is the sorted union of the
\* merged go_ids of the annotations, and the batch-level gene_symbols is the
\* sorted set of the trimmed symbols, blank ones left out, that the source
\* records of the annotations hold.
C25_BatchListsAreUnions ==
    Returned =>
        /\ response.body.go_ids =
             sorted(UNION {Range(annotations[k].merged.go_ids) : k \in DOMAIN annotations})
        /\ response.body.gene_symbols =
             sorted({Trimmed(s.v) : s \in {x \in ReturnedSymbols(annotations) :
                                            IsStr(x) /\ Trimmed(x.v) # <<>>}})

\* A result of two identifiers whose terms and symbols differ: the first has
\* GO:0006915 and TP53 only, the second GO:0006281 and X only, and the
\* batch-level lists hold both terms and both symbols
C25_Witness ==
    /\ response.status = "result"
    /\ Len(annotations) = 2
    /\ annotations[1].merged.go_ids = <<go_1>>
    /\ annotations[2].merged.go_ids = <<go_2>>
    /\ annotations[1].sources.ensembl.symbol = Str(sym_TP53)
    /\ annotations[1].sources.ncbi.symbol = Str(<<>>)
    /\ annotations[2].sources.ensembl.symbol = Str(<<>>)
    /\ annotations[2].sources.ncbi.symbol = Str(sym_X)
    /\ response.body.go_ids = <<go_2, go_1>>
    /\ Len(response.body.gene_symbols) >= 2
=============================================================================
